---- MODULE Spec2Model ----
(***************************************************************************)
(* Verification model of gym-idsgame:                                      *)
(*   - envs/dao/network_config.py   (NetworkConfig)                        *)
(*   - envs/dao/game_config.py      (GameConfig)                           *)
(*   - envs/util/idsgame_util.py    (action interpretation and legality)   *)
(*   - agents/.../common/ppo/ppo.py (PPO trainer, opponent pools)          *)
(*                                                                         *)
(* Four specifications share the module:                                   *)
(*   SpecTopo : the topology and the pure functions over it                *)
(*   SpecPool : the opponent-pool methods of PPO called in any order       *)
(*   SpecCheckpoint : save_model and load on a trainer that is trained     *)
(*   Spec     : PPO.learn() driving collect_rollouts and train             *)
(***************************************************************************)
EXTENDS Integers, Sequences, FiniteSets, TLC

VARIABLES
    \* ---- topology / legality (SpecTopo) ----
    network_config,   \* the NetworkConfig object, or the exception its constructor raised
    call,             \* the last function call: its name, arguments and result
    \* ---- PPO trainer (SpecPool, Spec) ----
    pg_agent_config,        \* PolicyGradientAgentConfig handed to PPO.__init__
    pc,                     \* where the trainer is
    exc,                    \* the exception that ended the run, "none" otherwise
    op,                     \* the last method that ran, with its arguments
    train_attacker,
    train_defender,
    attacker_pool,
    defender_pool,
    attacker_opponent,
    defender_opponent,
    attacker_opponent_idx,
    defender_opponent_idx,
    attacker_policy,
    defender_policy,
    next_id,                \* identity of the next object to be created
    calls,                  \* calls since _setup_model that change the trainer
    \* ---- PPO.learn (Spec) ----
    args,                   \* n_steps of PPO.__init__ and total_timesteps of learn
    n_steps,                \* local of collect_rollouts
    num_timesteps,
    iteration,
    optimization_iteration,     \* local of learn, -1 while unassigned
    attacker_pool_iteration,    \* local of learn, -1 while unassigned
    defender_pool_iteration,    \* local of learn, -1 while unassigned
    attacker_rollout_buffer,
    defender_rollout_buffer,
    attacker_values,        \* local of collect_rollouts: "unbound" until a forward pass assigns it
    defender_values,
    num_train_games,
    num_train_hacks,
    num_train_games_total,
    num_train_hacks_total,
    updates_since_flip,     \* history: collect-then-update iterations of learn completed
                            \* since the trained side last changed (or since learn began)
    \* ---- episode metrics (Spec) ----
    rollout_metrics,        \* locals of collect_rollouts: the episode lists and accumulators
    learn_metrics,          \* locals of learn: the episode lists of the logging window
    env_episode,            \* the environment's running episode: rewards and steps so far
    completed               \* history: the episodes the environment completed in the
                            \* logging window, as env_episode was at their last step

topoVars == <<network_config, call>>

poolVars == <<pg_agent_config, pc, exc, op, train_attacker, train_defender,
              attacker_pool, defender_pool, attacker_opponent, defender_opponent,
              attacker_opponent_idx, defender_opponent_idx,
              attacker_policy, defender_policy, next_id, calls>>

learnVars == <<args, n_steps, num_timesteps, iteration, optimization_iteration,
               attacker_pool_iteration, defender_pool_iteration,
               attacker_rollout_buffer, defender_rollout_buffer,
               attacker_values, defender_values,
               num_train_games, num_train_hacks, num_train_games_total, num_train_hacks_total,
               updates_since_flip>>

metricVars == <<rollout_metrics, learn_metrics, env_episode, completed>>

trainerVars == <<poolVars, learnVars, metricVars>>

vars == <<topoVars, poolVars, learnVars, metricVars>>

(***************************************************************************)
(* Bounds of the topology model.                                           *)
(***************************************************************************)
MaxRows == 4
MaxCols == 3
MaxAttackTypes == 2
MaxHist == 4

(***************************************************************************)
(* Python values: a call either returns a value or raises an exception.    *)
(***************************************************************************)
Ret(v) == [val |-> v]
Raise(e) == [exc |-> e]
IsRet(r) == "val" \in DOMAIN r
IsRaise(r) == "exc" \in DOMAIN r
None == [none |-> TRUE]

\* the three episode lists of collect_rollouts (lines 261-264) and of learn
\* (lines 572-574), empty
EpisodeLists ==
    [episode_attacker_rewards |-> <<>>, episode_defender_rewards |-> <<>>,
     episode_steps |-> <<>>]

\* collect_rollouts, lines 261-269: the episode lists and the accumulators of
\* the running episode as the function sets them up
RolloutMetrics ==
    [episode_attacker_rewards |-> <<>>, episode_defender_rewards |-> <<>>,
     episode_steps |-> <<>>,
     episode_attacker_reward |-> 0, episode_defender_reward |-> 0, episode_step |-> 0]

\* the environment right after reset(): no reward, no step
EnvEpisode == [attacker_reward |-> 0, defender_reward |-> 0, step |-> 0]

NoMetrics ==
    /\ rollout_metrics = RolloutMetrics
    /\ learn_metrics = EpisodeLists
    /\ env_episode = EnvEpisode
    /\ completed = <<>>

\* seq[i] with a Python index (0-based, negative indexes count from the end)
PyIndex(seq, i) ==
    IF i >= 0 /\ i < Len(seq) THEN Ret(seq[i + 1])
    ELSE IF i < 0 /\ -i <= Len(seq) THEN Ret(seq[Len(seq) + i + 1])
    ELSE Raise("IndexError")

(***************************************************************************)
(* NodeType enumeration.                                                   *)
(***************************************************************************)
START == "START"
EMPTY == "EMPTY"
SERVER == "SERVER"
DATA == "DATA"
NodeType == {START, EMPTY, SERVER, DATA}

(***************************************************************************)
(* NetworkConfig                                                           *)
(***************************************************************************)
Cells(num_rows, num_cols) == (0 .. num_rows - 1) \X (0 .. num_cols - 1)

\* NetworkConfig.__default_graph_layout
default_graph_layout_mutant(num_rows, num_cols) ==
    [p \in Cells(num_rows, num_cols) |->
        IF p[1] = num_rows - 1
        THEN (IF p[2] = 0 THEN START ELSE EMPTY)
        ELSE IF p[1] = 0
        THEN (IF p[2] = num_cols \div 2 THEN DATA ELSE EMPTY)
        ELSE SERVER]

default_graph_layout(num_rows, num_cols) ==
    [p \in Cells(num_rows, num_cols) |->
        IF p[1] = num_rows - 1
        THEN (IF p[2] = num_cols \div 2 THEN START ELSE EMPTY)
        ELSE IF p[1] = 0
        THEN (IF p[2] = num_cols \div 2 THEN DATA ELSE EMPTY)
        ELSE SERVER]

\* row-major scan for the first cell of a given type (start_pos / data_pos)
RECURSIVE FindType(_, _, _, _, _)
FindType(layout, num_rows, num_cols, type, k) ==
    IF k >= num_rows * num_cols THEN Raise("AssertionError")
    ELSE LET p == <<k \div num_cols, k % num_cols>>
         IN IF layout[p] = type THEN Ret(p)
            ELSE FindType(layout, num_rows, num_cols, type, k + 1)

\* NetworkConfig.start_pos
start_pos(nc) == FindType(nc.graph_layout, nc.num_rows, nc.num_cols, START, 0)

\* NetworkConfig.data_pos
data_pos(nc) == FindType(nc.graph_layout, nc.num_rows, nc.num_cols, DATA, 0)

\* NetworkConfig.get_coords
get_coords(nc, node_id) == <<node_id \div nc.num_cols, node_id % nc.num_cols>>

\* the branch of __default_adjacency_matrix that sets [i][j] and [j][i] to 1
AdjacencyAssignsMutant(num_rows, num_cols, sp, dp, i, j) ==
    LET row_1 == i \div num_cols
        col_1 == i % num_cols
        row_2 == j \div num_cols
    IN IF row_1 = dp[1]
       THEN row_2 = dp[1] + 1 /\ col_1 = dp[2]
       ELSE IF row_1 = sp[1]
       THEN row_2 = sp[1] - 1 /\ col_1 = sp[2]
       ELSE row_2 = row_1 + 1 /\ row_1 # sp[1] /\ row_2 # sp[1]

AdjacencyAssigns(num_rows, num_cols, sp, dp, i, j) ==
    LET row_1 == i \div num_cols
        col_1 == i % num_cols
        row_2 == j \div num_cols
        col_2 == j % num_cols
    IN IF row_1 = dp[1]
       THEN row_2 = dp[1] + 1 /\ col_1 = dp[2]
       ELSE IF row_1 = sp[1]
       THEN row_2 = sp[1] - 1 /\ col_1 = sp[2]
       ELSE row_2 = row_1 + 1 /\ col_1 = col_2 /\ row_1 # sp[1] /\ row_2 # sp[1]

\* the entries one iteration (i, j) of the double loop sets to 1
AdjacencyWritesMutant(num_rows, num_cols, sp, dp, i, j) ==
    IF AdjacencyAssigns(num_rows, num_cols, sp, dp, i, j)
    THEN {<<i, j>>}
    ELSE {}

AdjacencyWrites(num_rows, num_cols, sp, dp, i, j) ==
    IF AdjacencyAssigns(num_rows, num_cols, sp, dp, i, j)
    THEN {<<i, j>>, <<j, i>>}
    ELSE {}

\* NetworkConfig.__default_adjacency_matrix: a matrix (sequence of rows) of zeros in which an
\* entry is 1 when some iteration of the double loop has set it; the data_row
\* and start_row properties raise AssertionError when the layout has no such cell
default_adjacency_matrix(num_rows, num_cols, layout) ==
    LET n == num_rows * num_cols
        dp == FindType(layout, num_rows, num_cols, DATA, 0)
        sp == FindType(layout, num_rows, num_cols, START, 0)
    IN IF n = 0 THEN Ret(<<>>)
       ELSE IF IsRaise(dp) THEN dp
       ELSE IF IsRaise(sp) THEN sp
       ELSE Ret([r \in 1 .. n |-> [c \in 1 .. n |->
                    IF \E i \in 0 .. n - 1, j \in 0 .. n - 1 :
                          <<r - 1, c - 1>> \in AdjacencyWrites(num_rows, num_cols, sp.val, dp.val, i, j)
                    THEN 1 ELSE 0]])

\* adjacency_matrix[i][j] with the 0-based indexes of the code; the matrix is
\* kept as a sequence of rows
MatrixAt(m, i, j) == m[i + 1][j + 1]

\* NetworkConfig.__init__
NetworkConfig(num_rows, num_cols) ==
    LET layout == default_graph_layout(num_rows, num_cols)
        adj == default_adjacency_matrix(num_rows, num_cols, layout)
    IN IF IsRaise(adj) THEN adj
       ELSE [num_rows |-> num_rows, num_cols |-> num_cols,
             graph_layout |-> layout, adjacency_matrix |-> adj.val]

\* NetworkConfig.node_list
RECURSIVE NodeListScan(_, _, _)
NodeListScan(nc, k, acc) ==
    IF k >= nc.num_rows * nc.num_cols THEN acc
    ELSE LET t == nc.graph_layout[<<k \div nc.num_cols, k % nc.num_cols>>]
         IN NodeListScan(nc, k + 1, IF t # EMPTY THEN Append(acc, t) ELSE acc)

node_list(nc) == NodeListScan(nc, 0, <<>>)

\* NetworkConfig.get_node_pos: the loop over the cells, count = non-EMPTY cells passed
RECURSIVE GetNodePosScan(_, _, _, _)
GetNodePosScan(nc, node_id, k, count) ==
    IF k >= nc.num_rows * nc.num_cols THEN Raise("ValueError")
    ELSE LET p == <<k \div nc.num_cols, k % nc.num_cols>>
         IN IF node_id = count THEN Ret(p)
            ELSE GetNodePosScan(nc, node_id, k + 1,
                                IF nc.graph_layout[p] # EMPTY THEN count + 1 ELSE count)

get_node_pos(nc, node_id) == GetNodePosScan(nc, node_id, 0, 0)

\* NetworkConfig.get_node_id
RECURSIVE GetNodeIdScan(_, _, _, _)
GetNodeIdScan(nc, pos, k, count) ==
    IF k >= nc.num_rows * nc.num_cols THEN Raise("ValueError")
    ELSE LET p == <<k \div nc.num_cols, k % nc.num_cols>>
         IN IF pos = p
            THEN (IF nc.graph_layout[p] = EMPTY THEN Ret(-1) ELSE Ret(count))
            ELSE GetNodeIdScan(nc, pos, k + 1,
                               IF nc.graph_layout[p] # EMPTY THEN count + 1 ELSE count)

get_node_id(nc, pos) == GetNodeIdScan(nc, pos, 0, 0)

(***************************************************************************)
(* GameConfig                                                              *)
(***************************************************************************)
\* GameConfig.__init__, line 36: num_nodes, +2 for the START and DATA nodes
GameConfigNumNodesMutant(num_layers, num_servers_per_layer) ==
    (num_layers + 2) * num_servers_per_layer

GameConfigNumNodes(num_layers, num_servers_per_layer) ==
    num_layers * num_servers_per_layer + 2

\* GameConfig.__init__ (the derived sizes; network_config is the topology
\* NetworkConfig(num_rows, num_cols) the constructor builds)
GameConfig(nc, num_layers, num_servers_per_layer, num_attack_types) ==
    LET num_nodes == GameConfigNumNodes(num_layers, num_servers_per_layer)
    IN [num_layers |-> num_layers,
        num_servers_per_layer |-> num_servers_per_layer,
        num_attack_types |-> num_attack_types,
        num_rows |-> num_layers + 2,
        num_nodes |-> num_nodes,
        num_cols |-> num_servers_per_layer,
        num_attack_actions |-> num_attack_types * num_nodes,
        num_defense_actions |-> (num_attack_types + 1) * num_nodes,
        num_states |-> num_nodes,
        network_config |-> nc]

(***************************************************************************)
(* idsgame_util                                                            *)
(***************************************************************************)
\* get_attack_defense_type
get_attack_defense_type(action, gc) == action % gc.num_attack_types

\* interpret_action
interpret_action(action, gc) ==
    LET server_id == action \div gc.num_attack_types
        server_pos == get_node_pos(gc.network_config, server_id)
    IN IF IsRaise(server_pos) THEN server_pos
       ELSE Ret(<<server_id, server_pos.val, get_attack_defense_type(action, gc)>>)

\* get_action_id
get_action_id_mutant(server_id, attack_defense_type, gc) ==
    server_id * gc.num_nodes + attack_defense_type

get_action_id(server_id, attack_defense_type, gc) ==
    server_id * gc.num_attack_types + attack_defense_type

\* is_attack_legal, line 56: the history is long enough for the anti-cycling test
EnoughHistoryMutant(past_moves) == Len(past_moves) >= 3

EnoughHistory(past_moves) == Len(past_moves) >= 4

\* the anti-cycling test of is_attack_legal (lines 56-62); the operands of the
\* condition are read in the order of the code's short-circuit evaluation
PeriodicMove(target_pos, attacker_pos, target_node_id, past_moves) ==
    IF past_moves = None THEN Ret(FALSE)
    ELSE IF ~EnoughHistory(past_moves.list) THEN Ret(FALSE)
    ELSE LET pm == past_moves.list
             middle_node == PyIndex(pm, -1)
             m2 == PyIndex(pm, -2)
             m3 == PyIndex(pm, -3)
             m4 == PyIndex(pm, -4)
         IN IF IsRaise(middle_node) THEN middle_node
            ELSE IF IsRaise(m2) THEN m2
            ELSE IF target_node_id # m2.val \/ target_node_id = middle_node.val
                 THEN Ret(FALSE)
            ELSE IF IsRaise(m3) THEN m3
            ELSE IF middle_node.val # m3.val THEN Ret(FALSE)
            ELSE IF IsRaise(m4) THEN m4
            ELSE Ret(target_node_id = m4.val /\ target_pos[1] > attacker_pos[1])

\* is_attack_legal, line 67: the adjacency matrix has an edge from the attacker's
\* cell to the target cell
AttackEdgeMutant(m, a, t) == TRUE

AttackEdge(m, a, t) == MatrixAt(m, a, t) = 1

\* is_attack_legal, line 54: the target is the START node
TargetIsStartMutant(type) == FALSE

TargetIsStart(type) == type = START

\* is_attack_legal, lines 51-52: the answer when target_pos == attacker_pos
SamePositionLegalMutant(target_pos, attacker_pos) == TRUE

SamePositionLegal(target_pos, attacker_pos) == FALSE

\* is_attack_legal
is_attack_legal(target_pos, attacker_pos, nc, past_moves) ==
    IF target_pos = attacker_pos THEN Ret(SamePositionLegal(target_pos, attacker_pos))
    ELSE LET target_node_id == get_node_id(nc, target_pos)
         IN IF IsRaise(target_node_id) THEN target_node_id
            ELSE LET type == PyIndex(node_list(nc), target_node_id.val)
                 IN IF IsRaise(type) THEN type
                    ELSE IF TargetIsStart(type.val) THEN Ret(FALSE)
                    ELSE LET periodic == PeriodicMove(target_pos, attacker_pos,
                                                      target_node_id.val, past_moves)
                             a == attacker_pos[1] * nc.num_cols + attacker_pos[2]
                             t == target_pos[1] * nc.num_cols + target_pos[2]
                         IN IF IsRaise(periodic) THEN periodic
                            ELSE IF periodic.val THEN Ret(FALSE)
                            ELSE Ret(AttackEdge(nc.adjacency_matrix, a, t))

\* is_attack_id_legal
is_attack_id_legal(attack_id, gc, attacker_pos, past_moves) ==
    LET ia == interpret_action(attack_id, gc)
    IN IF IsRaise(ia) THEN ia
       ELSE is_attack_legal(ia.val[2], attacker_pos, gc.network_config, past_moves)

\* is_defense_id_legal, lines 33-34: the node types a defense may target
DefenseLegalTypeMutant(type) == type = SERVER

DefenseLegalType(type) == type = SERVER \/ type = DATA

\* is_defense_id_legal
is_defense_id_legal(defense_id, gc) ==
    LET ia == interpret_action(defense_id, gc)
    IN IF IsRaise(ia) THEN ia
       ELSE LET type == PyIndex(node_list(gc.network_config), ia.val[1])
            IN IF IsRaise(type) THEN type
               ELSE Ret(DefenseLegalType(type.val))

\* no PPO object exists while the topology functions are exercised
NoTrainer ==
    /\ pg_agent_config = None
    /\ pc = "none"
    /\ exc = "none"
    /\ op = [name |-> "none"]
    /\ train_attacker = FALSE
    /\ train_defender = FALSE
    /\ attacker_pool = <<>>
    /\ defender_pool = <<>>
    /\ attacker_opponent = None
    /\ defender_opponent = None
    /\ attacker_opponent_idx = -1
    /\ defender_opponent_idx = -1
    /\ attacker_policy = None
    /\ defender_policy = None
    /\ next_id = 0
    /\ calls = 0
    /\ args = None
    /\ n_steps = -1
    /\ num_timesteps = 0
    /\ iteration = 0
    /\ optimization_iteration = -1
    /\ attacker_pool_iteration = -1
    /\ defender_pool_iteration = -1
    /\ attacker_rollout_buffer = None
    /\ defender_rollout_buffer = None
    /\ attacker_values = "unbound"
    /\ defender_values = "unbound"
    /\ num_train_games = 0
    /\ num_train_hacks = 0
    /\ num_train_games_total = 0
    /\ num_train_hacks_total = 0
    /\ updates_since_flip = 0
    /\ NoMetrics

(***************************************************************************)
(* SpecTopo: a topology is constructed, then the functions are called on   *)
(* it with arguments drawn from bounded sets.                              *)
(***************************************************************************)
Constructed == "num_rows" \in DOMAIN network_config

\* no call has been made yet on the constructed topology
Idle == Constructed /\ call.op = "none"

NumNodes == Len(node_list(network_config))

\* the game configuration whose default topology is network_config
GameConfigOf(nat) ==
    GameConfig(network_config, network_config.num_rows - 2, network_config.num_cols, nat)

\* move histories: None, or a list of at most MaxHist node ids
RECURSIVE SeqsUpTo(_, _)
SeqsUpTo(S, n) ==
    IF n = 0 THEN {<<>>}
    ELSE LET shorter == SeqsUpTo(S, n - 1)
         IN shorter \cup {Append(s, x) : s \in {q \in shorter : Len(q) = n - 1}, x \in S}

\* is_attack_legal compares the entries of the history only with the target's
\* node id and with one another, so the histories are drawn over the target's
\* node id and one other node id
HistIds(target_pos) ==
    LET tid == get_node_id(network_config, target_pos)
        t == IF IsRet(tid) THEN tid.val ELSE 0
    IN IF NumNodes = 0 THEN {t}
       ELSE {t, (t + 1) % NumNodes}

PastMoves(target_pos) ==
    {None} \cup {[list |-> s] : s \in SeqsUpTo(HistIds(target_pos), MaxHist)}

\* the position is_attack_id_legal hands to is_attack_legal
TargetOf(attack_id, nat) ==
    LET ia == interpret_action(attack_id, GameConfigOf(nat))
    IN IF IsRet(ia) THEN ia.val[2] ELSE <<0, 0>>

GridCells == Cells(network_config.num_rows, network_config.num_cols)

TopoInit ==
    /\ \E r \in 0 .. MaxRows, c \in 0 .. MaxCols : network_config = NetworkConfig(r, c)
    /\ call = [op |-> "none"]
    /\ NoTrainer

CallGetNodePos ==
    /\ Idle
    /\ \E node_id \in 0 .. NumNodes + 1 :
          call' = [op |-> "get_node_pos", node_id |-> node_id,
                   ret |-> get_node_pos(network_config, node_id)]
    /\ UNCHANGED <<network_config, trainerVars>>

CallGetNodeId ==
    /\ Idle
    /\ \E pos \in Cells(network_config.num_rows + 1, network_config.num_cols + 1) :
          call' = [op |-> "get_node_id", pos |-> pos,
                   ret |-> get_node_id(network_config, pos)]
    /\ UNCHANGED <<network_config, trainerVars>>

CallGetActionId ==
    /\ Idle
    /\ network_config.num_rows >= 2
    /\ \E nat \in 1 .. MaxAttackTypes, n \in 0 .. NumNodes - 1, t \in 0 .. MaxAttackTypes :
          call' = [op |-> "get_action_id", nat |-> nat, server_id |-> n, type |-> t,
                   ret |-> get_action_id(n, t, GameConfigOf(nat))]
    /\ UNCHANGED <<network_config, trainerVars>>

CallInterpretAction ==
    /\ Idle
    /\ network_config.num_rows >= 2
    /\ \E nat \in 1 .. MaxAttackTypes :
       \E action \in 0 .. GameConfigOf(nat).num_defense_actions :
          call' = [op |-> "interpret_action", nat |-> nat, action |-> action,
                   ret |-> interpret_action(action, GameConfigOf(nat))]
    /\ UNCHANGED <<network_config, trainerVars>>

CallIsAttackLegal ==
    /\ Idle
    /\ \E target_pos \in GridCells \cup {<<network_config.num_rows, 0>>},
          attacker_pos \in GridCells :
       \E past_moves \in PastMoves(target_pos) :
          call' = [op |-> "is_attack_legal", target_pos |-> target_pos,
                   attacker_pos |-> attacker_pos, past_moves |-> past_moves,
                   ret |-> is_attack_legal(target_pos, attacker_pos, network_config, past_moves)]
    /\ UNCHANGED <<network_config, trainerVars>>

CallIsAttackIdLegal ==
    /\ Idle
    /\ network_config.num_rows >= 2
    /\ \E nat \in 1 .. MaxAttackTypes :
       \E attack_id \in 0 .. GameConfigOf(nat).num_attack_actions - 1,
          attacker_pos \in GridCells :
       \E past_moves \in PastMoves(TargetOf(attack_id, nat)) :
          call' = [op |-> "is_attack_id_legal", nat |-> nat, attack_id |-> attack_id,
                   attacker_pos |-> attacker_pos, past_moves |-> past_moves,
                   ret |-> is_attack_id_legal(attack_id, GameConfigOf(nat), attacker_pos, past_moves)]
    /\ UNCHANGED <<network_config, trainerVars>>

CallIsDefenseIdLegal ==
    /\ Idle
    /\ network_config.num_rows >= 2
    /\ \E nat \in 1 .. MaxAttackTypes :
       \E defense_id \in 0 .. GameConfigOf(nat).num_defense_actions - 1 :
          call' = [op |-> "is_defense_id_legal", nat |-> nat, defense_id |-> defense_id,
                   ret |-> is_defense_id_legal(defense_id, GameConfigOf(nat))]
    /\ UNCHANGED <<network_config, trainerVars>>

\* GameConfig(num_layers, num_servers_per_layer, num_attack_types) with the
\* default topology, the one the constructor builds from num_rows and num_cols
CallGameConfig ==
    /\ Idle
    /\ network_config.num_rows >= 2
    /\ \E nat \in 1 .. MaxAttackTypes :
          call' = [op |-> "GameConfig", nat |-> nat,
                   num_layers |-> network_config.num_rows - 2,
                   num_servers_per_layer |-> network_config.num_cols,
                   ret |-> GameConfig(NetworkConfig(network_config.num_rows,
                                                    network_config.num_cols),
                                      network_config.num_rows - 2,
                                      network_config.num_cols, nat)]
    /\ UNCHANGED <<network_config, trainerVars>>

TopoNext ==
    \/ CallGameConfig
    \/ CallGetNodePos
    \/ CallGetNodeId
    \/ CallGetActionId
    \/ CallInterpretAction
    \/ CallIsAttackLegal
    \/ CallIsAttackIdLegal
    \/ CallIsDefenseIdLegal

SpecTopo == TopoInit /\ [][TopoNext]_vars

(***************************************************************************)
(* Properties of the topology and of the action interpretation.            *)
(***************************************************************************)
\* the topologies the claims quantify over
ValidTopology ==
    Constructed /\ network_config.num_rows >= 3 /\ network_config.num_cols >= 1

\* C1: for every valid node id n of a topology with num_rows >= 3 and
\* num_cols >= 1, get_node_id(get_node_pos(n)) == n.
C1_NodeIdRoundTrip ==
    (ValidTopology /\ call.op = "get_node_pos" /\ call.node_id < NumNodes)
        => /\ IsRet(call.ret)
           /\ get_node_id(network_config, call.ret.val) = Ret(call.node_id)

\* C2: for every valid node id n and type t < num_attack_types,
\* interpret_action(get_action_id(n, t)) returns (n, get_node_pos(n), t); with
\* 10 attack types on the 4-node topology action 23 is node 2, type 3, and
\* get_action_id(2, 3) is 23.
C2_Scenario ==
    LET gc == GameConfig(NetworkConfig(3, 2), 1, 2, 10)
        ia == interpret_action(23, gc)
    IN /\ gc.num_nodes = 4
       /\ IsRet(ia) /\ ia.val[1] = 2 /\ ia.val[3] = 3
       /\ get_action_id(2, 3, gc) = 23

C2_InterpretInvertsGetActionId ==
    /\ (ValidTopology /\ call.op = "get_action_id" /\ call.type < call.nat)
          => LET gc == GameConfigOf(call.nat)
                 pos == get_node_pos(network_config, call.server_id)
             IN /\ IsRet(pos)
                /\ interpret_action(call.ret, gc)
                      = Ret(<<call.server_id, pos.val, call.type>>)
    /\ C2_Scenario

C2_Witness ==
    /\ ValidTopology /\ call.op = "get_action_id"
    /\ call.nat >= 2 /\ call.type = 1 /\ call.server_id >= 2
    /\ call.ret = call.server_id * call.nat + 1

\* C3: an attack whose target position is the attacker's own position is
\* always reported illegal, whatever the topology and the move history.
C3_OwnPositionIllegal ==
    (call.op = "is_attack_legal" /\ call.target_pos = call.attacker_pos)
        => call.ret = Ret(FALSE)

C3_Witness ==
    /\ ValidTopology /\ call.op = "is_attack_legal"
    /\ call.target_pos = call.attacker_pos
    /\ network_config.graph_layout[call.target_pos] = SERVER
    /\ call.past_moves # None /\ Len(call.past_moves.list) >= 4
    /\ call.ret = Ret(FALSE)

\* C4: an attack on the START node is always reported illegal, from every
\* position and with every history, by is_attack_legal (target position is
\* the START cell) and by is_attack_id_legal (the action's node id is START's).
StartNodeId == get_node_id(network_config, start_pos(network_config).val).val

C4_StartTargetIllegal ==
    /\ (call.op = "is_attack_legal" /\ call.target_pos = start_pos(network_config).val)
          => call.ret = Ret(FALSE)
    /\ (call.op = "is_attack_id_legal" /\ call.attack_id \div call.nat = StartNodeId)
          => call.ret = Ret(FALSE)

\* the attacker stands on the cell the adjacency matrix links to START
C4_Witness ==
    /\ ValidTopology /\ call.op = "is_attack_legal"
    /\ call.target_pos = start_pos(network_config).val
    /\ call.attacker_pos # call.target_pos
    /\ LET nc == network_config
           a == call.attacker_pos[1] * nc.num_cols + call.attacker_pos[2]
           t == call.target_pos[1] * nc.num_cols + call.target_pos[2]
       IN MatrixAt(nc.adjacency_matrix, a, t) = 1
    /\ call.ret = Ret(FALSE)

\* C5: the adjacency matrix is symmetric, A[i][j] == A[j][i] for all i, j,
\* for every num_rows >= 3 and num_cols >= 1.
C5_AdjacencySymmetric ==
    ValidTopology =>
        LET n == network_config.num_rows * network_config.num_cols
        IN \A i \in 0 .. n - 1, j \in 0 .. n - 1 :
              MatrixAt(network_config.adjacency_matrix, i, j)
                  = MatrixAt(network_config.adjacency_matrix, j, i)

C5_Witness ==
    /\ ValidTopology
    /\ network_config.num_cols >= 2
    /\ LET n == network_config.num_rows * network_config.num_cols
       IN \E i \in 0 .. n - 1, j \in 0 .. n - 1 :
             /\ i < j
             /\ MatrixAt(network_config.adjacency_matrix, i, j) = 1
             /\ MatrixAt(network_config.adjacency_matrix, j, i) = 1

\* C11: every action id of the attacker action space [0, num_attack_actions)
\* and of the defender action space [0, num_defense_actions) is interpreted to
\* an existing node (node id < num_nodes) without raising, so neither
\* is_attack_id_legal nor is_defense_id_legal fails on an id of the action space.
C11_ActionSpaceIdsAreValid ==
    /\ (ValidTopology /\ call.op = "is_attack_id_legal")
          => /\ call.attack_id \div call.nat < GameConfigOf(call.nat).num_nodes
             /\ IsRet(call.ret)
    /\ (ValidTopology /\ call.op = "is_defense_id_legal")
          => /\ call.defense_id \div call.nat < GameConfigOf(call.nat).num_nodes
             /\ IsRet(call.ret)
    /\ (ValidTopology /\ call.op = "interpret_action"
           /\ call.action < GameConfigOf(call.nat).num_defense_actions)
          => /\ IsRet(call.ret)
             /\ call.ret.val[1] < GameConfigOf(call.nat).num_nodes

\* the type of the node with the given id: the type of the cell that has it
NodeTypeOf(node_id) ==
    LET p == CHOOSE p \in GridCells : get_node_id(network_config, p) = Ret(node_id)
    IN network_config.graph_layout[p]

\* C12: for every defense action id whose node id is valid, is_defense_id_legal
\* returns True if and only if the targeted node is a SERVER or the DATA node;
\* it returns False for the START node.
C12_DefenseLegalIffServerOrData ==
    (/\ ValidTopology
     /\ call.op = "is_defense_id_legal"
     /\ call.defense_id \div call.nat < NumNodes)
        => LET type == NodeTypeOf(call.defense_id \div call.nat)
           IN /\ IsRet(call.ret)
              /\ call.ret.val <=> (type = SERVER \/ type = DATA)
              /\ type = START => call.ret = Ret(FALSE)

\* a defense of the DATA node, reported legal
C12_Witness ==
    /\ ValidTopology
    /\ call.op = "is_defense_id_legal"
    /\ call.defense_id \div call.nat < NumNodes
    /\ NodeTypeOf(call.defense_id \div call.nat) = DATA
    /\ call.ret = Ret(TRUE)

\* the index of a cell in the adjacency matrix
MatrixId(pos) == pos[1] * network_config.num_cols + pos[2]

Period2Pattern(target_node_id, pm) ==
    /\ Len(pm) >= 4
    /\ pm[Len(pm) - 3] = target_node_id
    /\ pm[Len(pm) - 1] = target_node_id
    /\ pm[Len(pm) - 2] = pm[Len(pm)]
    /\ pm[Len(pm)] # target_node_id

\* C14: when the last four recorded moves form a period-2 pattern
\* (past_moves[-4] == past_moves[-2] == target node and past_moves[-3] ==
\* past_moves[-1] != target node), is_attack_legal rejects the move if the
\* target lies in a row strictly above the attacker's row, that is, in a row of
\* smaller index.
C14_PeriodicMoveUpwardsRejected ==
    (/\ ValidTopology
     /\ call.op = "is_attack_legal"
     /\ call.target_pos \in GridCells
     /\ call.past_moves # None
     /\ IsRet(get_node_id(network_config, call.target_pos))
     /\ Period2Pattern(get_node_id(network_config, call.target_pos).val,
                       call.past_moves.list)
     /\ call.target_pos[1] < call.attacker_pos[1])
        => call.ret = Ret(FALSE)

\* C15: the anti-cycling rule engages only once 4 moves of history exist: with
\* a history of fewer than 4 entries is_attack_legal returns what it returns
\* with past_moves = None, for every target and attacker position.
C15_ShortHistoryIsNoHistory ==
    (/\ call.op = "is_attack_legal"
     /\ call.past_moves # None
     /\ Len(call.past_moves.list) < 4)
        => call.ret = is_attack_legal(call.target_pos, call.attacker_pos,
                                      network_config, None)

\* a history of three moves that alternate like a period-2 pattern, with a
\* target below the attacker, and the move is legal all the same
C15_Witness ==
    /\ ValidTopology
    /\ call.op = "is_attack_legal"
    /\ call.past_moves # None
    /\ Len(call.past_moves.list) = 3
    /\ call.past_moves.list[1] = call.past_moves.list[3]
    /\ call.past_moves.list[2] # call.past_moves.list[3]
    /\ Ret(call.past_moves.list[2]) = get_node_id(network_config, call.target_pos)
    /\ call.target_pos[1] > call.attacker_pos[1]
    /\ call.ret = Ret(TRUE)

\* C16: on every topology with num_rows >= 3 and num_cols >= 1, get_node_pos
\* fails with the invalid-node-id error for every node_id that is at least the
\* number of nodes (non-EMPTY cells); it returns no position for such an id.
C16_NodePosFailsBeyondNodeCount ==
    (ValidTopology /\ call.op = "get_node_pos" /\ call.node_id >= NumNodes)
        => call.ret = Raise("ValueError")

\* C17: for num_layers >= 1, num_servers_per_layer >= 1 and num_attack_types
\* >= 1, a default-constructed GameConfig has num_rows = num_layers + 2,
\* num_cols = num_servers_per_layer, num_nodes = num_layers *
\* num_servers_per_layer + 2, num_attack_actions = num_attack_types * num_nodes
\* and num_defense_actions = (num_attack_types + 1) * num_nodes; num_nodes is
\* the length of node_list of the topology it builds, which has num_rows rows
\* and num_cols columns (4 nodes in a 3 x 2 grid for one layer of two servers).
C17_GameConfigSizes ==
    (/\ call.op = "GameConfig"
     /\ call.num_layers >= 1
     /\ call.num_servers_per_layer >= 1
     /\ call.nat >= 1)
        => LET gc == call.ret
               nodes == call.num_layers * call.num_servers_per_layer + 2
           IN /\ gc.num_rows = call.num_layers + 2
              /\ gc.num_cols = call.num_servers_per_layer
              /\ gc.num_nodes = nodes
              /\ gc.num_attack_actions = call.nat * nodes
              /\ gc.num_defense_actions = (call.nat + 1) * nodes
              /\ gc.network_config.num_rows = gc.num_rows
              /\ gc.network_config.num_cols = gc.num_cols
              /\ gc.num_nodes = Len(node_list(gc.network_config))
              /\ gc.num_nodes = Cardinality({p \in Cells(gc.num_rows, gc.num_cols) :
                                               gc.network_config.graph_layout[p] # EMPTY})
              /\ (call.num_layers = 1 /\ call.num_servers_per_layer = 2)
                    => gc.num_nodes = 4 /\ gc.num_rows = 3 /\ gc.num_cols = 2

\* the configuration with one layer of two servers: 4 nodes in a 3 x 2 grid
C17_Witness ==
    /\ call.op = "GameConfig"
    /\ call.num_layers = 1
    /\ call.num_servers_per_layer = 2
    /\ call.nat = 2
    /\ call.ret.num_nodes = 4
    /\ Len(node_list(call.ret.network_config)) = 4
    /\ call.ret.num_defense_actions = 12

\* the cells of a given type in the built layout
CellsOfType(type) == {p \in GridCells : network_config.graph_layout[p] = type}

\* C18: for num_rows >= 2 and num_cols >= 1 the built layout has exactly one
\* START cell, at (num_rows - 1, num_cols // 2), and exactly one DATA cell, at
\* (0, num_cols // 2); every other cell of the first and the last row is EMPTY
\* and every cell of the rows in between is SERVER.  (No call changes the
\* topology, so the layout is looked at as it is after construction.)
C18_DefaultLayout ==
    (Idle /\ network_config.num_rows >= 2 /\ network_config.num_cols >= 1)
        => LET rows == network_config.num_rows
               cols == network_config.num_cols
           IN /\ CellsOfType(START) = {<<rows - 1, cols \div 2>>}
              /\ CellsOfType(DATA) = {<<0, cols \div 2>>}
              /\ CellsOfType(EMPTY) =
                    {p \in GridCells : p[1] \in {0, rows - 1} /\ p[2] # cols \div 2}
              /\ CellsOfType(SERVER) =
                    {p \in GridCells : p[1] > 0 /\ p[1] < rows - 1}

\* a 4 x 3 layout: START bottom-centre, DATA top-centre, two rows of servers
C18_Witness ==
    /\ Idle
    /\ network_config.num_rows = 4
    /\ network_config.num_cols = 3
    /\ network_config.graph_layout[<<3, 1>>] = START
    /\ network_config.graph_layout[<<0, 1>>] = DATA
    /\ network_config.graph_layout[<<3, 2>>] = EMPTY
    /\ Cardinality(CellsOfType(SERVER)) = 6

\* the cells of a row that have an edge with cell p, in either direction
NeighboursInRow(p, row) ==
    {q \in GridCells :
        /\ q[1] = row
        /\ \/ MatrixAt(network_config.adjacency_matrix, MatrixId(p), MatrixId(q)) = 1
           \/ MatrixAt(network_config.adjacency_matrix, MatrixId(q), MatrixId(p)) = 1}

Neighbours(p) ==
    UNION {NeighboursInRow(p, row) : row \in 0 .. network_config.num_rows - 1}

\* C19: in every built topology with num_rows >= 3, every SERVER cell has
\* exactly one adjacent cell in the row above it and exactly one in the row
\* below it, START is adjacent only to cells of the row directly above it, DATA
\* only to cells of the row directly below it, and no EMPTY cell has any edge.
\* (No call changes the topology, so it is looked at as it is after construction.)
C19_DefaultAdjacency ==
    (Idle /\ ValidTopology)
        => \A p \in GridCells :
              LET type == network_config.graph_layout[p]
              IN /\ type = SERVER
                    => /\ Cardinality(NeighboursInRow(p, p[1] - 1)) = 1
                       /\ Cardinality(NeighboursInRow(p, p[1] + 1)) = 1
                 /\ type = START => Neighbours(p) = NeighboursInRow(p, p[1] - 1)
                 /\ type = DATA => Neighbours(p) = NeighboursInRow(p, p[1] + 1)
                 /\ type = EMPTY => Neighbours(p) = {}

\* a 4 x 3 topology: the server (1, 0) has DATA above and the server (2, 0)
\* below, and START has the three servers of row 2 as neighbours
C19_Witness ==
    /\ Idle
    /\ network_config.num_rows = 4
    /\ network_config.num_cols = 3
    /\ NeighboursInRow(<<1, 0>>, 0) = {<<0, 1>>}
    /\ NeighboursInRow(<<1, 0>>, 2) = {<<2, 0>>}
    /\ Neighbours(<<3, 1>>) = {<<2, 0>>, <<2, 1>>, <<2, 2>>}

(***************************************************************************)
(* PPO: opponent pools (ppo.py)                                            *)
(*                                                                         *)
(* Objects carry an identity (id): copy.deepcopy gives a new object.  A    *)
(* policy is [kind, id, params], params counting the training updates its  *)
(* weights have received; a bot is [kind, id].  A pool entry is            *)
(*   [model, quality]   the Python list [model, score]                     *)
(*   the object itself  a bare policy or bot                               *)
(*   [list1]            the one-element Python list [bot] of line 152      *)
(* Quality scores are fixed-point integers.                                *)
(***************************************************************************)
MaxPoolSize == 3        \* pool_maxsize ranges over 0 .. MaxPoolSize
MaxCalls == 4           \* method calls after _setup_model in SpecPool
InitialQuality == 4     \* opponent_pool_config.initial_quality
QualityScoreEta == 1    \* opponent_pool_config.quality_score_eta
ExpBits == 3            \* fraction bits of the softmax weights

PPOPolicy == "PPOPolicy"

Bot(kind, id) == [kind |-> kind, id |-> id]

Policy(id, params) == [kind |-> PPOPolicy, id |-> id, params |-> params]

\* copy.deepcopy(policy): a new object with the same weights
deepcopy_mutant(policy, id) == policy

deepcopy(policy, id) == Policy(id, policy.params)

RECURSIVE SeqMax(_)
SeqMax(q) ==
    IF Len(q) = 1 THEN q[1]
    ELSE LET m == SeqMax(Tail(q)) IN IF q[1] >= m THEN q[1] ELSE m

RECURSIVE SeqMin(_)
SeqMin(q) ==
    IF Len(q) = 1 THEN q[1]
    ELSE LET m == SeqMin(Tail(q)) IN IF q[1] <= m THEN q[1] ELSE m

RECURSIVE SeqSum(_)
SeqSum(q) == IF Len(q) = 0 THEN 0 ELSE q[1] + SeqSum(Tail(q))

RECURSIVE Pow2(_)
Pow2(n) == IF n <= 0 THEN 1 ELSE 2 * Pow2(n - 1)

PoolEnabled(cfg) == cfg.opponent_pool /\ cfg.opponent_pool_config # None

\* PPO.__init__, lines 131-155: the trainable flags and the seeded pools
InitTrainer(cfg) ==
    LET opc == cfg.opponent_pool_config
        q == opc.initial_quality
        min_def == Bot("DefendMinimalValueBotAgent", 1)
        rnd_def == Bot("RandomDefenseBotAgent", 2)
        max_att == Bot("AttackMaximalValueBotAgent", 3)
        rnd_att == Bot("RandomAttackBotAgent", 4)
    IN IF ~PoolEnabled(cfg)
       THEN [train_attacker |-> TRUE, train_defender |-> TRUE,
             attacker_pool |-> <<>>, defender_pool |-> <<>>]
       ELSE IF ~cfg.baselines_in_pool
       THEN [train_attacker |-> TRUE, train_defender |-> FALSE,
             attacker_pool |-> <<>>, defender_pool |-> <<>>]
       ELSE IF opc.quality_scores
       THEN [train_attacker |-> TRUE, train_defender |-> FALSE,
             attacker_pool |-> <<[model |-> max_att, quality |-> q],
                                 [model |-> rnd_att, quality |-> q]>>,
             defender_pool |-> <<[model |-> min_def, quality |-> q],
                                 [model |-> rnd_def, quality |-> q]>>]
       ELSE [train_attacker |-> TRUE, train_defender |-> FALSE,
             attacker_pool |-> <<rnd_att>>,
             defender_pool |-> <<min_def, [list1 |-> rnd_def]>>]

\* get_attacker_pool_quality_scores / get_defender_pool_quality_scores
get_pool_quality_scores(pool) == [i \in 1 .. Len(pool) |-> pool[i].quality]

\* get_softmax_distribution: softmax(qualities)[i] is weights[i] / SeqSum(weights),
\* the weights being powers of two of the distance to the best score, with
\* ExpBits fraction bits (a weight further away underflows to 0)
get_softmax_distribution(qualities) ==
    LET best == SeqMax(qualities)
    IN [i \in 1 .. Len(qualities) |->
           IF best - qualities[i] <= ExpBits
           THEN Pow2(ExpBits - (best - qualities[i]))
           ELSE 0]

\* list.pop(0)
PopFirstMutant(pool) == SubSeq(pool, 1, Len(pool) - 1)

PopFirst(pool) == Tail(pool)

\* add_model_to_pool, lines 738 / 751: the score of the new entry
MaxQualityMutant(qualities) == SeqMin(qualities)

MaxQuality(qualities) == SeqMax(qualities)

\* add_model_to_pool for one side: pool is that side's pool, policy its live
\* policy, id the identity of the copy
add_model_to_pool(cfg, pool, policy, id) ==
    LET opc == cfg.opponent_pool_config
        model_copy == deepcopy(policy, id)
        evict == Len(pool) >= opc.pool_maxsize
        pool1 == IF evict THEN PopFirst(pool) ELSE pool
    IN IF ~PoolEnabled(cfg) THEN Ret(pool)
       ELSE IF evict /\ Len(pool) = 0 THEN Raise("IndexError")
       ELSE IF opc.quality_scores
       THEN (IF Len(pool1) = 0
             THEN Ret(Append(pool1, [model |-> model_copy, quality |-> opc.initial_quality]))
             ELSE Ret(Append(pool1, [model |-> model_copy,
                                     quality |-> MaxQuality(get_pool_quality_scores(pool1))])))
       ELSE Ret(Append(pool1, model_copy))

\* sample_opponent: the indexes np.random.choice can return
sample_opponent_mutant(pool) == 0 .. Len(pool)

sample_opponent(pool) == 0 .. Len(pool) - 1

\* the opponent the callers of sample_opponent take from the pool
\* (lines 207-216, 392-395, 400-403)
OpponentAt(cfg, pool, idx) ==
    IF cfg.opponent_pool_config.quality_scores
    THEN pool[idx + 1].model
    ELSE pool[idx + 1]

\* no call of sample_opponent: the opponent that was sampled before is kept
NotSampled ==
    [called |-> FALSE, sample |-> None, exc |-> "none", idx |-> -1, opponent |-> None]

\* the caller's pair of statements (lines 206-210, 212-216, 391-395, 399-403)
\*     idx = self.sample_opponent(attacker);  opponent = pool[idx]  (or pool[idx][0])
\* and its outcomes: np.random.choice raises ValueError for an empty list, and
\* the subscript raises IndexError for an index beyond the pool.  sample records
\* the call: the side, the length of the pool it drew from and what it returned
SampleAndTake(cfg, pool, attacker) ==
    IF sample_opponent(pool) = {}
    THEN {[called |-> TRUE,
           sample |-> [attacker |-> attacker, len |-> Len(pool), ret |-> Raise("ValueError")],
           exc |-> "ValueError", idx |-> -1, opponent |-> None]}
    ELSE {[called |-> TRUE,
           sample |-> [attacker |-> attacker, len |-> Len(pool), ret |-> Ret(idx)],
           exc |-> IF idx < Len(pool) THEN "none" ELSE "IndexError",
           idx |-> idx,
           opponent |-> IF idx < Len(pool) THEN OpponentAt(cfg, pool, idx) ELSE None]
            : idx \in sample_opponent(pool)}

\* the calls of sample_opponent a step has made, in order
Samples(outcomes) ==
    SelectSeq([i \in 1 .. Len(outcomes) |-> outcomes[i].sample], LAMBDA x : x # None)

\* update_quality_score, lines 807-808 / 814-815: the new score, with
\* p = weights[opponent_idx] / SeqSum(weights); eta / (N * p) is rounded up to
\* the next fixed-point value
NewScoreMutant(score, eta, N, weights, opponent_idx) ==
    LET num == eta * SeqSum(weights)
        den == N * weights[opponent_idx + 1]
    IN score + ((num + den - 1) \div den)

NewScore(score, eta, N, weights, opponent_idx) ==
    LET num == eta * SeqSum(weights)
        den == N * weights[opponent_idx + 1]
    IN score - ((num + den - 1) \div den)

\* update_quality_score for one side
update_quality_score(cfg, pool, opponent_idx) ==
    LET N == Len(pool)
        qualities == get_pool_quality_scores(pool)
        dist == get_softmax_distribution(qualities)
    IN [pool EXCEPT ![opponent_idx + 1].quality =
            NewScore(@, cfg.opponent_pool_config.quality_score_eta, N, dist, opponent_idx)]

\* the scores the fixed-point softmax can handle: the selected entry has a
\* weight above 0
ScoreInRange(pool, opponent_idx) ==
    /\ get_softmax_distribution(get_pool_quality_scores(pool))[opponent_idx + 1] > 0

(***************************************************************************)
(* PPO construction and the pool methods as single calls.                  *)
(***************************************************************************)
\* the opponent_pool_config objects the model ranges over
OpponentPoolConfigs ==
    [pool_maxsize : 0 .. MaxPoolSize,
     quality_scores : BOOLEAN,
     pool_increment_period : {0},
     initial_quality : {InitialQuality},
     quality_score_eta : {QualityScoreEta}]

\* the state PPO.__init__ leaves before it calls _setup_model (line 162)
Constructor(cfg) ==
    LET t == InitTrainer(cfg)
    IN /\ pg_agent_config = cfg
       /\ pc = "constructed"
       /\ exc = "none"
       /\ op = [name |-> "__init__"]
       /\ train_attacker = t.train_attacker
       /\ train_defender = t.train_defender
       /\ attacker_pool = t.attacker_pool
       /\ defender_pool = t.defender_pool
       /\ attacker_opponent = None
       /\ defender_opponent = None
       /\ attacker_opponent_idx = -1
       /\ defender_opponent_idx = -1
       /\ attacker_policy = None
       /\ defender_policy = None
       /\ next_id = 5
       /\ calls = 0
       /\ n_steps = -1
       /\ num_timesteps = 0
       /\ iteration = 0
       /\ optimization_iteration = -1
       /\ attacker_pool_iteration = -1
       /\ defender_pool_iteration = -1
       /\ attacker_rollout_buffer = None
       /\ defender_rollout_buffer = None
       /\ attacker_values = "unbound"
       /\ defender_values = "unbound"
       /\ num_train_games = 0
       /\ num_train_hacks = 0
       /\ num_train_games_total = 0
       /\ num_train_hacks_total = 0
       /\ updates_since_flip = 0
       /\ NoMetrics

NoTopology ==
    /\ network_config = None
    /\ call = [op |-> "none"]

\* RolloutBuffer(n_steps, ...): pos transitions added since the last reset,
\* returns telling whether compute_returns_and_advantage has run on them
RolloutBuffer == [pos |-> 0, returns |-> FALSE]

\* what the two sampling outcomes d (defender pool) and a (attacker pool) of a
\* step leave behind: the sampled index is assigned before the subscript is
\* taken, and the first exception ends the step
Sampled(cfg, d, a, method, next_pc) ==
    /\ op' = [samples |-> Samples(<<d, a>>)] @@ method
    /\ defender_opponent_idx' = IF d.called /\ IsRet(d.sample.ret) THEN d.idx
                                ELSE defender_opponent_idx
    /\ defender_opponent' = IF d.called /\ d.exc = "none" THEN d.opponent
                            ELSE defender_opponent
    /\ attacker_opponent_idx' = IF a.called /\ IsRet(a.sample.ret) THEN a.idx
                                ELSE attacker_opponent_idx
    /\ attacker_opponent' = IF a.called /\ a.exc = "none" THEN a.opponent
                            ELSE attacker_opponent
    /\ IF d.exc # "none" THEN pc' = "raised" /\ exc' = d.exc
       ELSE IF a.exc # "none" THEN pc' = "raised" /\ exc' = a.exc
       ELSE pc' = next_pc /\ UNCHANGED exc

\* _setup_model, lines 165-216: the live policies, then with a pool one
\* snapshot per side and the first opponents
SetupModel ==
    /\ pc = "constructed"
    /\ LET cfg == pg_agent_config
           a_policy == Policy(next_id, 0)
           d_policy == Policy(next_id + 1, 0)
           a_pool == add_model_to_pool(cfg, attacker_pool, a_policy, next_id + 2)
           d_pool == add_model_to_pool(cfg, defender_pool, d_policy, next_id + 3)
       IN /\ attacker_rollout_buffer' = RolloutBuffer
          /\ defender_rollout_buffer' = RolloutBuffer
          /\ attacker_policy' = a_policy
          /\ defender_policy' = d_policy
          /\ IF ~PoolEnabled(cfg)
             THEN /\ pc' = "ready"
                  /\ next_id' = next_id + 2
                  /\ op' = [name |-> "_setup_model", samples |-> <<>>]
                  /\ UNCHANGED <<exc, attacker_pool, defender_pool, attacker_opponent,
                                 defender_opponent, attacker_opponent_idx, defender_opponent_idx>>
             ELSE IF IsRaise(a_pool)
             THEN /\ pc' = "raised"
                  /\ exc' = a_pool.exc
                  /\ next_id' = next_id + 3
                  /\ op' = [name |-> "_setup_model", samples |-> <<>>]
                  /\ UNCHANGED <<attacker_pool, defender_pool, attacker_opponent,
                                 defender_opponent, attacker_opponent_idx, defender_opponent_idx>>
             ELSE IF IsRaise(d_pool)
             THEN /\ pc' = "raised"
                  /\ exc' = d_pool.exc
                  /\ next_id' = next_id + 4
                  /\ op' = [name |-> "_setup_model", samples |-> <<>>]
                  /\ attacker_pool' = a_pool.val
                  /\ UNCHANGED <<defender_pool, attacker_opponent,
                                 defender_opponent, attacker_opponent_idx, defender_opponent_idx>>
             ELSE /\ next_id' = next_id + 4
                  /\ attacker_pool' = a_pool.val
                  /\ defender_pool' = d_pool.val
                  /\ \E d \in SampleAndTake(cfg, d_pool.val, FALSE) :
                        \E a \in (IF d.exc = "none"
                                  THEN SampleAndTake(cfg, a_pool.val, TRUE)
                                  ELSE {NotSampled}) :
                           Sampled(cfg, d, a, [name |-> "_setup_model"], "ready")
    /\ UNCHANGED <<pg_agent_config, train_attacker, train_defender, calls>>
    /\ UNCHANGED <<args, n_steps, num_timesteps, iteration, optimization_iteration,
                   attacker_pool_iteration, defender_pool_iteration,
                   attacker_values, defender_values,
                   num_train_games, num_train_hacks, num_train_games_total,
                   num_train_hacks_total, updates_since_flip>>
    /\ UNCHANGED metricVars
    /\ UNCHANGED topoVars

\* a call of add_model_to_pool(attacker)
CallAddModelToPool(attacker) ==
    /\ pc = "ready"
    /\ PoolEnabled(pg_agent_config)
    /\ calls < MaxCalls
    /\ calls' = calls + 1
    /\ LET r == IF attacker
                THEN add_model_to_pool(pg_agent_config, attacker_pool, attacker_policy, next_id)
                ELSE add_model_to_pool(pg_agent_config, defender_pool, defender_policy, next_id)
       IN /\ next_id' = next_id + 1
          /\ op' = [name |-> "add_model_to_pool", attacker |-> attacker]
          /\ IF IsRaise(r)
             THEN /\ pc' = "raised"
                  /\ exc' = r.exc
                  /\ UNCHANGED <<attacker_pool, defender_pool>>
             ELSE /\ attacker_pool' = IF attacker THEN r.val ELSE attacker_pool
                  /\ defender_pool' = IF attacker THEN defender_pool ELSE r.val
                  /\ UNCHANGED <<pc, exc>>
    /\ UNCHANGED <<pg_agent_config, train_attacker, train_defender, attacker_opponent,
                   defender_opponent, attacker_opponent_idx, defender_opponent_idx,
                   attacker_policy, defender_policy>>
    /\ UNCHANGED <<topoVars, learnVars, metricVars>>

\* a call of update_quality_score(opponent_idx, attacker)
CallUpdateQualityScore(attacker) ==
    /\ pc = "ready"
    /\ PoolEnabled(pg_agent_config)
    /\ pg_agent_config.opponent_pool_config.quality_scores
    /\ calls < MaxCalls
    /\ calls' = calls + 1
    /\ \E opponent_idx \in 0 .. Len(IF attacker THEN attacker_pool ELSE defender_pool) - 1 :
          /\ ScoreInRange(IF attacker THEN attacker_pool ELSE defender_pool, opponent_idx)
          /\ op' = [name |-> "update_quality_score", attacker |-> attacker,
                    opponent_idx |-> opponent_idx]
          /\ attacker_pool' = IF attacker
                              THEN update_quality_score(pg_agent_config, attacker_pool, opponent_idx)
                              ELSE attacker_pool
          /\ defender_pool' = IF attacker
                              THEN defender_pool
                              ELSE update_quality_score(pg_agent_config, defender_pool, opponent_idx)
    /\ UNCHANGED <<pg_agent_config, pc, exc, train_attacker, train_defender, attacker_opponent,
                   defender_opponent, attacker_opponent_idx, defender_opponent_idx,
                   attacker_policy, defender_policy, next_id>>
    /\ UNCHANGED <<topoVars, learnVars, metricVars>>

\* a training update of one live policy (train, lines 502-513)
train(policy) == [policy EXCEPT !.params = @ + 1]

CallTrain(attacker) ==
    /\ pc = "ready"
    /\ calls < MaxCalls
    /\ calls' = calls + 1
    /\ op' = [name |-> "train", attacker |-> attacker]
    /\ attacker_policy' = IF attacker THEN train(attacker_policy) ELSE attacker_policy
    /\ defender_policy' = IF attacker THEN defender_policy ELSE train(defender_policy)
    /\ UNCHANGED <<pg_agent_config, pc, exc, train_attacker, train_defender,
                   attacker_pool, defender_pool, attacker_opponent,
                   defender_opponent, attacker_opponent_idx, defender_opponent_idx, next_id>>
    /\ UNCHANGED <<topoVars, learnVars, metricVars>>

(***************************************************************************)
(* Checkpoints: PPO.save_model, BaseRLModel.save and BaseRLModel.load      *)
(***************************************************************************)
\* the observation and action spaces of an environment; "trained" are the
\* spaces of the environment the trainer was constructed with
SpaceNames == {"attacker_observation_space", "attacker_action_space",
               "defender_observation_space", "defender_action_space"}

TrainingEnv == [n \in SpaceNames |-> "trained"]

\* the environments load is called with: the training environment and the
\* environments that differ from it in one space
Envs == {TrainingEnv} \cup {[TrainingEnv EXCEPT ![n] = "other"] : n \in SpaceNames}

\* self.__dict__ of the trainer: the attributes save and load deal with
\* (base_class.py:165-168 for the spaces)
SelfDict ==
    [env |-> TrainingEnv,
     attacker_observation_space |-> TrainingEnv["attacker_observation_space"],
     attacker_action_space |-> TrainingEnv["attacker_action_space"],
     defender_observation_space |-> TrainingEnv["defender_observation_space"],
     defender_action_space |-> TrainingEnv["defender_action_space"],
     tensorboard_writer |-> "SummaryWriter",
     train_attacker |-> train_attacker,
     train_defender |-> train_defender,
     attacker_pool |-> attacker_pool,
     defender_pool |-> defender_pool,
     attacker_policy |-> attacker_policy,
     defender_policy |-> defender_policy]

\* BaseRLModel.excluded_save_params (the names that are attributes here)
excluded_save_params == {"policy", "device", "env", "eval_env", "replay_buffer",
                         "rollout_buffer", "_vec_normalize_env"}

\* PPO.get_torch_variables: the names of the state dicts
get_torch_variables(attacker) ==
    IF attacker THEN {"attacker_policy", "attacker_policy.optimizer"}
    ELSE {"defender_policy", "defender_policy.optimizer"}

\* torch_var.split('.')[0] for the names above
TopName(torch_var) ==
    IF torch_var \in get_torch_variables(TRUE) THEN "attacker_policy" ELSE "defender_policy"

\* recursive_getattr(self, name).state_dict(): the parameters of the policy,
\* and the state of its optimizer, which advances with them
state_dict(self, name) == self[TopName(name)].params

\* BaseRLModel.save: the checkpoint written to path
save(self, exclude, attacker) ==
    LET state_dicts_names == get_torch_variables(attacker)
        excluded == exclude \cup excluded_save_params
                        \cup {TopName(v) : v \in state_dicts_names}
    IN [data |-> [n \in DOMAIN self \ excluded |-> self[n]],
        params |-> [name \in state_dicts_names |-> state_dict(self, name)]]

\* PPO.save_model: the files written, by the side they are written for; both
\* calls of save leave the attacker argument at its default True
save_model(self, cfg, save_dir) ==
    LET exclude == {"tensorboard_writer", "attacker_pool", "defender_pool"}
        sides == IF save_dir = None THEN {}
                 ELSE {side \in {"attacker", "defender"} :
                          IF side = "attacker" THEN cfg.attacker ELSE cfg.defender}
    IN [side \in sides |-> save(self, exclude, TRUE)]

\* BaseRLModel.load: the model returned for a checkpoint and an environment.
\* The call of check_env is commented out (lines 531-536).  The constructor
\* runs with the new environment, the saved attributes replace the
\* constructed ones, _setup_model builds new policies and puts a copy of each
\* into the pools, then the saved state dicts are loaded.  (The opponents
\* _setup_model samples are not part of the returned record.)
load(checkpoint, env, cfg) ==
    LET t == InitTrainer(cfg)
        constructed == [env |-> env,
                        attacker_observation_space |-> env["attacker_observation_space"],
                        attacker_action_space |-> env["attacker_action_space"],
                        defender_observation_space |-> env["defender_observation_space"],
                        defender_action_space |-> env["defender_action_space"],
                        train_attacker |-> t.train_attacker,
                        train_defender |-> t.train_defender,
                        attacker_pool |-> t.attacker_pool,
                        defender_pool |-> t.defender_pool,
                        attacker_policy |-> None,
                        defender_policy |-> None]
        data == checkpoint.data
        updated == [n \in DOMAIN constructed \cup DOMAIN data |->
                       IF n \in DOMAIN data THEN data[n] ELSE constructed[n]]
        a_policy == Policy(5, 0)
        d_policy == Policy(6, 0)
        a_pool == add_model_to_pool(cfg, updated["attacker_pool"], a_policy, 7)
        d_pool == add_model_to_pool(cfg, updated["defender_pool"], d_policy, 8)
        Loaded(policy, name) ==
            IF name \in DOMAIN checkpoint.params
            THEN [policy EXCEPT !.params = checkpoint.params[name]]
            ELSE policy
    IN IF IsRaise(a_pool) THEN a_pool
       ELSE IF IsRaise(d_pool) THEN d_pool
       ELSE Ret([n \in DOMAIN updated |->
                    CASE n = "attacker_policy" -> Loaded(a_policy, "attacker_policy")
                      [] n = "defender_policy" -> Loaded(d_policy, "defender_policy")
                      [] n = "attacker_pool" -> a_pool.val
                      [] n = "defender_pool" -> d_pool.val
                      [] OTHER -> updated[n]])

\* pg_agent_config.save_dir when it is not None
SaveDir == [path |-> "save_dir"]

\* the trainer state is left alone by save_model and by load
CheckpointFrame ==
    /\ UNCHANGED <<pg_agent_config, pc, exc, train_attacker, train_defender,
                   attacker_pool, defender_pool, attacker_opponent,
                   defender_opponent, attacker_opponent_idx, defender_opponent_idx,
                   attacker_policy, defender_policy, next_id, calls>>
    /\ UNCHANGED <<topoVars, learnVars, metricVars>>

\* save_model and load leave the trainer as it is, so a second save or load of
\* the same trainer state writes and returns what the first did: they are
\* called once the trainer has changed
TrainerChanged == op.name \notin {"save_model", "load"}

\* save_model(), with pg_agent_config.save_dir set or None
CallSaveModel ==
    /\ pc = "ready"
    /\ calls < MaxCalls
    /\ TrainerChanged
    /\ \E save_dir \in {None, SaveDir} :
          op' = [name |-> "save_model", save_dir |-> save_dir,
                 files |-> save_model(SelfDict, pg_agent_config, save_dir)]
    /\ CheckpointFrame

\* PPO.load(path, env, pg_agent_config=...) of a checkpoint save_model writes
\* for the trainer as it is now
CallLoad ==
    /\ pc = "ready"
    /\ calls < MaxCalls
    /\ TrainerChanged
    /\ LET files == save_model(SelfDict, pg_agent_config, SaveDir)
       IN \E side \in DOMAIN files, env \in Envs :
             op' = [name |-> "load", side |-> side, checkpoint |-> files[side],
                    env |-> env, ret |-> load(files[side], env, pg_agent_config)]
    /\ CheckpointFrame

PoolInit ==
    /\ NoTopology
    /\ args = [n_steps |-> 1, total_timesteps |-> 1]
    /\ \E opc \in OpponentPoolConfigs, baselines_in_pool \in BOOLEAN :
          Constructor([attacker |-> TRUE, defender |-> TRUE,
                       alternating_optimization |-> TRUE, alternating_period |-> 0,
                       train_log_frequency |-> 1,
                       opponent_pool |-> TRUE, baselines_in_pool |-> baselines_in_pool,
                       opponent_pool_config |-> opc])

PoolNext ==
    \/ SetupModel
    \/ \E attacker \in BOOLEAN : CallAddModelToPool(attacker)
    \/ \E attacker \in BOOLEAN : CallUpdateQualityScore(attacker)
    \/ \E attacker \in BOOLEAN : CallTrain(attacker)

SpecPool == PoolInit /\ [][PoolNext]_vars

\* SpecCheckpoint: the trainer is trained and its pools grow, and checkpoints
\* of it are saved and loaded
CheckpointNext ==
    \/ SetupModel
    \/ \E attacker \in BOOLEAN : CallAddModelToPool(attacker)
    \/ \E attacker \in BOOLEAN : CallTrain(attacker)
    \/ CallSaveModel
    \/ CallLoad

SpecCheckpoint == PoolInit /\ [][CheckpointNext]_vars

(***************************************************************************)
(* PPO.learn: rollout collection, pool growth, training and the            *)
(* alternation of the trained side (Spec)                                  *)
(***************************************************************************)
MaxRolloutSteps == 2    \* n_steps ranges over 1 .. MaxRolloutSteps
MaxTimesteps == 3       \* total_timesteps of learn
MaxPeriod == 1          \* alternating_period ranges over 0 .. MaxPeriod
MaxLogFrequency == 2    \* train_log_frequency ranges over 1 .. MaxLogFrequency

\* alternating_optimization and opponent_pool, the test of lines 294, 308,
\* 348, 355, 388, 609 and 632
AlternatingWithPool(cfg) == cfg.alternating_optimization /\ cfg.opponent_pool

\* isinstance(opponent, PPOPolicy)
IsPPOPolicy(opponent) == "kind" \in DOMAIN opponent /\ opponent.kind = PPOPolicy

\* opponent.forward(...) exists: policies have it, bots and lists do not
HasForward(opponent) == IsPPOPolicy(opponent)

\* opponent.action(...) exists: the bot agents have it, policies and lists do not
HasAction(opponent) == "kind" \in DOMAIN opponent /\ opponent.kind # PPOPolicy

\* the locals of one pass through the loop of collect_rollouts, lines 283-284
Locals ==
    [attacker_actions |-> "list", defender_actions |-> "list",
     attacker_values |-> attacker_values, defender_values |-> defender_values,
     attacker_via |-> "none", defender_via |-> "none",
     on_step |-> TRUE, exc |-> "none"]

\* lines 295 and 309: the interface through which an opponent is asked for its
\* action, decided by isinstance(tested, PPOPolicy)
OpponentInterface(tested) == IF IsPPOPolicy(tested) THEN "forward" ELSE "action"

\* the call a pass through the loop of collect_rollouts is recorded as: for
\* each side, whose method gave its action ("own": the live policy's forward,
\* "forward" / "action": the opponent's method, "none": the default action),
\* and what callback.on_step() returned
RolloutCall(L) ==
    [name |-> "collect_rollouts",
     attacker_via |-> L.attacker_via, defender_via |-> L.defender_via,
     on_step |-> L.on_step]

\* lines 289-301: the attacker's forward pass and the defender opponent's action
AttackerActs(cfg, L) ==
    IF ~(cfg.attacker /\ train_attacker) THEN L
    ELSE LET L1 == [L EXCEPT !.attacker_actions = "ndarray", !.attacker_values = "bound",
                             !.attacker_via = "own"]
             L2 == [L1 EXCEPT !.defender_via = OpponentInterface(defender_opponent)]
         IN IF ~AlternatingWithPool(cfg) THEN L1
            ELSE IF L2.defender_via = "forward"
            THEN [L2 EXCEPT !.defender_actions = "ndarray", !.defender_values = "bound"]
            ELSE IF HasAction(defender_opponent)
            THEN [L2 EXCEPT !.defender_actions = "ndarray"]
            ELSE [L2 EXCEPT !.exc = "AttributeError"]

\* lines 303-315: the defender's forward pass and the attacker opponent's action
DefenderActs(cfg, L) ==
    IF L.exc # "none" \/ ~(cfg.defender /\ train_defender) THEN L
    ELSE LET L1 == [L EXCEPT !.defender_actions = "ndarray", !.defender_values = "bound",
                             !.defender_via = "own"]
             \* line 309 tests self.defender_opponent
             L2 == [L1 EXCEPT !.attacker_via = OpponentInterface(defender_opponent)]
         IN IF ~AlternatingWithPool(cfg) THEN L1
            ELSE IF L2.attacker_via = "forward"
            THEN (IF HasForward(attacker_opponent)
                  THEN [L2 EXCEPT !.attacker_actions = "ndarray", !.attacker_values = "bound"]
                  ELSE [L2 EXCEPT !.exc = "AttributeError"])
            ELSE IF HasAction(attacker_opponent)
            THEN [L2 EXCEPT !.attacker_actions = "ndarray"]
            ELSE [L2 EXCEPT !.exc = "AttributeError"]

\* lines 340-345: reshape of the actions, which a Python list does not have
Reshape(cfg, L) ==
    IF L.exc # "none" THEN L
    ELSE IF cfg.attacker /\ L.attacker_actions = "list" THEN [L EXCEPT !.exc = "AttributeError"]
    ELSE IF cfg.defender /\ L.defender_actions = "list" THEN [L EXCEPT !.exc = "AttributeError"]
    ELSE L

\* lines 347-353 / 354-361: whether the side's transition goes to its buffer
AddsTransitionMutant(cfg, side_enabled, train_side) == side_enabled

AddsTransition(cfg, side_enabled, train_side) ==
    side_enabled /\ (AlternatingWithPool(cfg) => train_side)

\* rollout_buffer.add(...)
BufferAdd(buffer) == [buffer EXCEPT !.pos = @ + 1]

\* rollout_buffer.reset()
BufferReset(buffer) == [buffer EXCEPT !.pos = 0, !.returns = FALSE]

\* rollout_buffer.compute_returns_and_advantage(...)
BufferComputeReturns(buffer) == [buffer EXCEPT !.returns = TRUE]

\* lines 380-385: the pools after the quality update of a finished episode
QualityUpdateDefender(cfg, hacked) ==
    /\ PoolEnabled(cfg)
    /\ cfg.opponent_pool_config.quality_scores
    /\ train_attacker
    /\ hacked

QualityUpdateAttacker(cfg, hacked) ==
    /\ PoolEnabled(cfg)
    /\ cfg.opponent_pool_config.quality_scores
    /\ train_defender
    /\ ~hacked

\* learn, line 585: while self.num_timesteps < total_timesteps
LoopContinuesMutant(timesteps, total_timesteps) == timesteps <= total_timesteps

LoopContinues(timesteps, total_timesteps) == timesteps < total_timesteps

\* what env.step returns for one step: the two sides' rewards
StepRewards == {[attacker |-> 1, defender |-> -1]}

\* the environment's running episode after a step with the rewards r
EnvStep(episode, r) ==
    [attacker_reward |-> episode.attacker_reward + r.attacker,
     defender_reward |-> episode.defender_reward + r.defender,
     step |-> episode.step + 1]

\* env.step ran with the rewards r; a finished episode is followed by a reset
EnvStepped(r, done) ==
    /\ env_episode' = IF done THEN EnvEpisode ELSE EnvStep(env_episode, r)
    /\ completed' = IF done THEN Append(completed, EnvStep(env_episode, r))
                    ELSE completed

\* collect_rollouts, lines 335-337 and 372-377: the step is added to the
\* accumulators; at the end of an episode they are appended to the lists
\* and set back to zero
RecordStep(m, r, done) ==
    LET a == m.episode_attacker_reward + r.attacker
        d == m.episode_defender_reward + r.defender
        n == m.episode_step + 1
    IN IF done
       THEN [episode_attacker_rewards |-> Append(m.episode_attacker_rewards, a),
             episode_defender_rewards |-> Append(m.episode_defender_rewards, d),
             episode_steps |-> Append(m.episode_steps, n),
             episode_attacker_reward |-> 0, episode_defender_reward |-> 0,
             episode_step |-> 0]
       ELSE [m EXCEPT !.episode_attacker_reward = a,
                      !.episode_defender_reward = d,
                      !.episode_step = n]

\* learn, lines 589-591: the lists collect_rollouts returned are appended to
\* the lists of learn
ExtendLists(lists, rollouts) ==
    [episode_attacker_rewards |->
        lists.episode_attacker_rewards \o rollouts.episode_attacker_rewards,
     episode_defender_rewards |->
        lists.episode_defender_rewards \o rollouts.episode_defender_rewards,
     episode_steps |->
        lists.episode_steps \o rollouts.episode_defender_rewards]

\* learn, lines 555-585: the counters are reset and the loop is entered
LearnStart ==
    /\ pc = "ready"
    /\ calls = 0
    /\ op' = [name |-> "learn"]
    /\ iteration' = 0
    /\ num_timesteps' = 0
    /\ attacker_pool_iteration' = IF PoolEnabled(pg_agent_config) THEN 0 ELSE -1
    /\ defender_pool_iteration' = IF PoolEnabled(pg_agent_config) THEN 0 ELSE -1
    /\ optimization_iteration' = IF pg_agent_config.alternating_optimization THEN 0 ELSE -1
    /\ pc' = IF LoopContinues(0, args.total_timesteps) THEN "collect" ELSE "done"
    /\ learn_metrics' = EpisodeLists
    /\ env_episode' = EnvEpisode
    /\ completed' = <<>>
    /\ UNCHANGED rollout_metrics
    /\ UNCHANGED <<args, n_steps, attacker_rollout_buffer, defender_rollout_buffer,
                   attacker_values, defender_values, num_train_games, num_train_hacks,
                   num_train_games_total, num_train_hacks_total, updates_since_flip>>
    /\ UNCHANGED <<pg_agent_config, exc, train_attacker, train_defender,
                   attacker_pool, defender_pool, attacker_opponent, defender_opponent,
                   attacker_opponent_idx, defender_opponent_idx,
                   attacker_policy, defender_policy, next_id, calls>>
    /\ UNCHANGED topoVars

\* collect_rollouts, lines 246-271: the buffers of the enabled sides are reset
CollectStart ==
    /\ pc = "collect"
    /\ op' = [name |-> "collect_rollouts"]
    /\ pc' = "step"
    /\ n_steps' = 0
    /\ attacker_rollout_buffer' = IF pg_agent_config.attacker
                                  THEN BufferReset(attacker_rollout_buffer)
                                  ELSE attacker_rollout_buffer
    /\ defender_rollout_buffer' = IF pg_agent_config.defender
                                  THEN BufferReset(defender_rollout_buffer)
                                  ELSE defender_rollout_buffer
    /\ attacker_values' = "unbound"
    /\ defender_values' = "unbound"
    /\ rollout_metrics' = RolloutMetrics
    /\ UNCHANGED <<learn_metrics, env_episode, completed>>
    /\ UNCHANGED <<args, num_timesteps, iteration, optimization_iteration,
                   attacker_pool_iteration, defender_pool_iteration,
                   num_train_games, num_train_hacks, num_train_games_total,
                   num_train_hacks_total, updates_since_flip>>
    /\ UNCHANGED <<pg_agent_config, exc, train_attacker, train_defender,
                   attacker_pool, defender_pool, attacker_opponent, defender_opponent,
                   attacker_opponent_idx, defender_opponent_idx,
                   attacker_policy, defender_policy, next_id, calls>>
    /\ UNCHANGED topoVars

\* a pass through the loop of collect_rollouts that ends in the exception e,
\* after `counted` steps were counted and the attacker's buffer became a_buffer
StepRaises(e, L, counted, stepped, a_buffer) ==
    /\ pc' = "raised"
    /\ IF stepped
       THEN \E r \in StepRewards : \E done \in BOOLEAN : EnvStepped(r, done)
       ELSE UNCHANGED <<env_episode, completed>>
    /\ UNCHANGED <<rollout_metrics, learn_metrics>>
    /\ exc' = e
    /\ op' = [samples |-> <<>>] @@ RolloutCall(L)
    /\ n_steps' = n_steps + counted
    /\ num_timesteps' = num_timesteps + counted
    /\ attacker_rollout_buffer' = a_buffer
    /\ attacker_values' = L.attacker_values
    /\ defender_values' = L.defender_values
    /\ UNCHANGED <<defender_rollout_buffer, attacker_pool, defender_pool,
                   attacker_opponent, defender_opponent,
                   attacker_opponent_idx, defender_opponent_idx,
                   num_train_games, num_train_hacks, num_train_games_total,
                   num_train_hacks_total, updates_since_flip>>

\* lines 328-329 and 586-588: callback.on_step() is False after env.step;
\* collect_rollouts returns the bare False before the step is counted, and
\* learn cannot unpack it into its four targets
CallbackAbortMutant(L) ==
    /\ pc' = "step"
    /\ exc' = "TypeError"
    /\ op' = [samples |-> <<>>] @@ RolloutCall([L EXCEPT !.on_step = FALSE])
    /\ \E r \in StepRewards : \E done \in BOOLEAN : EnvStepped(r, done)
    /\ UNCHANGED <<rollout_metrics, learn_metrics>>
    /\ attacker_values' = L.attacker_values
    /\ defender_values' = L.defender_values
    /\ UNCHANGED <<n_steps, num_timesteps, attacker_rollout_buffer,
                   defender_rollout_buffer, attacker_pool, defender_pool,
                   attacker_opponent, defender_opponent,
                   attacker_opponent_idx, defender_opponent_idx,
                   num_train_games, num_train_hacks, num_train_games_total,
                   num_train_hacks_total, updates_since_flip>>

CallbackAbort(L) ==
    StepRaises("TypeError", [L EXCEPT !.on_step = FALSE], 0, TRUE, attacker_rollout_buffer)

\* lines 388-403: the outcomes of the resampling of one side's opponent
Resample(cfg, resample, pool, attacker) ==
    IF ~resample THEN {NotSampled}
    ELSE IF cfg.opponent_pool_config = None
    THEN {[NotSampled EXCEPT !.exc = "AttributeError"]}
    ELSE {NotSampled} \cup SampleAndTake(cfg, pool, attacker)

\* lines 365-403: the end of an episode (dones) after a step
EpisodeEnd(cfg, L, done, hacked) ==
    LET update_d == done /\ QualityUpdateDefender(cfg, hacked)
        update_a == done /\ QualityUpdateAttacker(cfg, hacked)
        d_pool == IF update_d
                  THEN update_quality_score(cfg, defender_pool, defender_opponent_idx)
                  ELSE defender_pool
        a_pool == IF update_a
                  THEN update_quality_score(cfg, attacker_pool, attacker_opponent_idx)
                  ELSE attacker_pool
        resample_d == done /\ AlternatingWithPool(cfg) /\ cfg.attacker /\ train_attacker
        resample_a == done /\ AlternatingWithPool(cfg) /\ cfg.defender /\ train_defender
    IN /\ update_d => ScoreInRange(defender_pool, defender_opponent_idx)
       /\ update_a => ScoreInRange(attacker_pool, attacker_opponent_idx)
       /\ num_train_games' = IF done THEN num_train_games + 1 ELSE num_train_games
       /\ num_train_games_total' = IF done THEN num_train_games_total + 1
                                   ELSE num_train_games_total
       /\ num_train_hacks' = IF done /\ hacked THEN num_train_hacks + 1 ELSE num_train_hacks
       /\ num_train_hacks_total' = IF done /\ hacked THEN num_train_hacks_total + 1
                                   ELSE num_train_hacks_total
       /\ defender_pool' = d_pool
       /\ attacker_pool' = a_pool
       \* lines 390 / 398: opponent_pool_config.pool_prob is read (AttributeError
       \* when there is no opponent_pool_config), then np.random.rand() < pool_prob:
       \* a new opponent is sampled, or the old one is kept
       /\ \E d \in Resample(cfg, resample_d, d_pool, FALSE) :
             \E a \in (IF d.exc = "none" THEN Resample(cfg, resample_a, a_pool, TRUE)
                       ELSE {NotSampled}) :
                Sampled(cfg, d, a, RolloutCall(L), pc)

\* collect_rollouts, lines 272-403: one pass through the loop
RolloutStep ==
    /\ pc = "step"
    /\ n_steps < args.n_steps
    /\ LET cfg == pg_agent_config
           L == DefenderActs(cfg, AttackerActs(cfg, Locals))
           R == Reshape(cfg, L)
           add_a == AddsTransition(cfg, cfg.attacker, train_attacker)
           add_d == AddsTransition(cfg, cfg.defender, train_defender)
           a_buffer == IF add_a THEN BufferAdd(attacker_rollout_buffer)
                       ELSE attacker_rollout_buffer
       IN IF L.exc # "none"
          THEN StepRaises(L.exc, L, 0, FALSE, attacker_rollout_buffer)
          ELSE \/ CallbackAbort(L)
               \/ IF R.exc # "none"
                  THEN StepRaises(R.exc, L, 1, TRUE, attacker_rollout_buffer)
                  ELSE IF add_a /\ L.attacker_values = "unbound"
                  THEN StepRaises("UnboundLocalError", L, 1, TRUE, attacker_rollout_buffer)
                  ELSE IF add_d /\ L.defender_values = "unbound"
                  THEN StepRaises("UnboundLocalError", L, 1, TRUE, a_buffer)
                  ELSE /\ n_steps' = n_steps + 1
                       /\ num_timesteps' = num_timesteps + 1
                       /\ attacker_rollout_buffer' = a_buffer
                       /\ defender_rollout_buffer' =
                             IF add_d THEN BufferAdd(defender_rollout_buffer)
                             ELSE defender_rollout_buffer
                       /\ attacker_values' = L.attacker_values
                       /\ defender_values' = L.defender_values
                       /\ \E done \in BOOLEAN :
                             /\ \E r \in StepRewards :
                                   /\ EnvStepped(r, done)
                                   /\ rollout_metrics' =
                                         RecordStep(rollout_metrics, r, done)
                             /\ \E hacked \in (IF done THEN BOOLEAN ELSE {FALSE}) :
                                   EpisodeEnd(cfg, L, done, hacked)
                       /\ UNCHANGED <<updates_since_flip, learn_metrics>>
    /\ UNCHANGED <<args, iteration, optimization_iteration,
                   attacker_pool_iteration, defender_pool_iteration>>
    /\ UNCHANGED <<pg_agent_config, train_attacker, train_defender,
                   attacker_policy, defender_policy, next_id, calls>>
    /\ UNCHANGED topoVars

\* collect_rollouts, lines 406-413: returns and advantages, then return True
CollectEnd ==
    /\ pc = "step"
    /\ n_steps >= args.n_steps
    /\ op' = [name |-> "collect_rollouts"]
    /\ LET cfg == pg_agent_config
       IN IF cfg.attacker /\ attacker_values = "unbound"
          THEN /\ pc' = "raised"
               /\ exc' = "UnboundLocalError"
               /\ UNCHANGED <<attacker_rollout_buffer, defender_rollout_buffer>>
          ELSE IF cfg.defender /\ defender_values = "unbound"
          THEN /\ pc' = "raised"
               /\ exc' = "UnboundLocalError"
               /\ attacker_rollout_buffer' = IF cfg.attacker
                                             THEN BufferComputeReturns(attacker_rollout_buffer)
                                             ELSE attacker_rollout_buffer
               /\ UNCHANGED defender_rollout_buffer
          ELSE /\ pc' = "update"
               /\ attacker_rollout_buffer' = IF cfg.attacker
                                             THEN BufferComputeReturns(attacker_rollout_buffer)
                                             ELSE attacker_rollout_buffer
               /\ defender_rollout_buffer' = IF cfg.defender
                                             THEN BufferComputeReturns(defender_rollout_buffer)
                                             ELSE defender_rollout_buffer
               /\ UNCHANGED exc
    /\ UNCHANGED metricVars
    /\ UNCHANGED <<args, n_steps, num_timesteps, iteration, optimization_iteration,
                   attacker_pool_iteration, defender_pool_iteration,
                   attacker_values, defender_values,
                   num_train_games, num_train_hacks, num_train_games_total,
                   num_train_hacks_total, updates_since_flip>>
    /\ UNCHANGED <<pg_agent_config, train_attacker, train_defender,
                   attacker_pool, defender_pool, attacker_opponent, defender_opponent,
                   attacker_opponent_idx, defender_opponent_idx,
                   attacker_policy, defender_policy, next_id, calls>>
    /\ UNCHANGED topoVars

\* learn, lines 629-630: a window counter after the logging block
WindowResetMutant(log, counter) == 0

WindowReset(log, counter) == IF log THEN 0 ELSE counter

\* learn, lines 663 and 666: whether train() is run for a side
TrainsSideMutant(side_enabled, train_side) == side_enabled

TrainsSide(side_enabled, train_side) == side_enabled /\ train_side

\* learn, lines 589-682 and the loop test of line 585: what follows a
\* collect_rollouts that returned True
LearnUpdate ==
    /\ pc = "update"
    /\ LET cfg == pg_agent_config
           iteration1 == iteration + 1
           log == iteration1 % cfg.train_log_frequency = 0
           count_pool == log /\ AlternatingWithPool(cfg)
           unbound == count_pool /\ ~PoolEnabled(cfg) /\ (train_attacker \/ train_defender)
           a_iter == IF count_pool /\ train_attacker
                     THEN attacker_pool_iteration + 1 ELSE attacker_pool_iteration
           d_iter == IF count_pool /\ train_defender
                     THEN defender_pool_iteration + 1 ELSE defender_pool_iteration
           o_iter == IF log /\ cfg.alternating_optimization
                     THEN optimization_iteration + 1 ELSE optimization_iteration
           add_d == /\ log
                    /\ PoolEnabled(cfg)
                    /\ train_defender
                    /\ d_iter > cfg.opponent_pool_config.pool_increment_period
           add_a == /\ log
                    /\ PoolEnabled(cfg)
                    /\ train_attacker
                    /\ a_iter > cfg.opponent_pool_config.pool_increment_period
           d_add == add_model_to_pool(cfg, defender_pool, defender_policy, next_id)
           a_id == IF add_d THEN next_id + 1 ELSE next_id
           a_add == add_model_to_pool(cfg, attacker_pool, attacker_policy, a_id)
           train_a == TrainsSide(cfg.attacker, train_attacker)
           train_d == TrainsSide(cfg.defender, train_defender)
           to_defender == /\ cfg.alternating_optimization
                          /\ train_attacker
                          /\ o_iter > cfg.alternating_period
           to_attacker == /\ cfg.alternating_optimization
                          /\ ~to_defender
                          /\ train_defender
                          /\ o_iter > cfg.alternating_period
           lists == ExtendLists(learn_metrics, rollout_metrics)
           log_metrics == IF log THEN lists ELSE None
       IN /\ iteration' = iteration1
          /\ learn_metrics' = IF log THEN EpisodeLists ELSE lists
          /\ completed' = IF log THEN <<>> ELSE completed
          /\ UNCHANGED <<rollout_metrics, env_episode>>
          /\ IF unbound
             THEN \* lines 634 / 636: the pool iteration counters were never assigned
                  /\ pc' = "raised"
                  /\ exc' = "UnboundLocalError"
                  /\ op' = [name |-> "learn", log_metrics |-> log_metrics]
                  /\ num_train_games' = 0
                  /\ num_train_hacks' = 0
                  /\ UNCHANGED <<attacker_pool_iteration, defender_pool_iteration,
                                 optimization_iteration, attacker_pool, defender_pool,
                                 next_id, attacker_policy, defender_policy,
                                 train_attacker, train_defender>>
             ELSE IF (add_d /\ IsRaise(d_add)) \/ (add_a /\ IsRaise(a_add))
             THEN /\ pc' = "raised"
                  /\ exc' = "IndexError"
                  /\ op' = [name |-> "learn", log_metrics |-> log_metrics]
                  /\ num_train_games' = 0
                  /\ num_train_hacks' = 0
                  /\ attacker_pool_iteration' = a_iter
                  /\ defender_pool_iteration' = d_iter
                  /\ optimization_iteration' = o_iter
                  /\ defender_pool' = IF add_d /\ IsRet(d_add) THEN d_add.val ELSE defender_pool
                  /\ next_id' = a_id + 1
                  /\ UNCHANGED <<attacker_pool, attacker_policy, defender_policy,
                                 train_attacker, train_defender>>
             ELSE /\ pc' = IF LoopContinues(num_timesteps, args.total_timesteps)
                           THEN "collect" ELSE "done"
                  /\ UNCHANGED exc
                  /\ op' = [name |-> "learn", logged |-> log,
                            added_attacker |-> add_a, added_defender |-> add_d,
                            trained_attacker |-> train_a, trained_defender |-> train_d,
                            log_metrics |-> log_metrics]
                  /\ num_train_games' = WindowReset(log, num_train_games)
                  /\ num_train_hacks' = WindowReset(log, num_train_hacks)
                  /\ defender_pool' = IF add_d THEN d_add.val ELSE defender_pool
                  /\ attacker_pool' = IF add_a THEN a_add.val ELSE attacker_pool
                  /\ defender_pool_iteration' = IF add_d THEN 0 ELSE d_iter
                  /\ attacker_pool_iteration' = IF add_a THEN 0 ELSE a_iter
                  /\ next_id' = IF add_a THEN a_id + 1 ELSE a_id
                  /\ attacker_policy' = IF train_a THEN train(attacker_policy)
                                        ELSE attacker_policy
                  /\ defender_policy' = IF train_d THEN train(defender_policy)
                                        ELSE defender_policy
                  /\ train_attacker' = IF to_defender THEN FALSE
                                       ELSE IF to_attacker THEN TRUE ELSE train_attacker
                  /\ train_defender' = IF to_defender THEN TRUE
                                       ELSE IF to_attacker THEN FALSE ELSE train_defender
                  /\ optimization_iteration' = IF to_defender \/ to_attacker THEN 0 ELSE o_iter
    /\ updates_since_flip' = IF <<train_attacker', train_defender'>>
                                    # <<train_attacker, train_defender>>
                              THEN 0 ELSE updates_since_flip + 1
    /\ UNCHANGED <<args, n_steps, num_timesteps, attacker_rollout_buffer,
                   defender_rollout_buffer, attacker_values, defender_values,
                   num_train_games_total, num_train_hacks_total>>
    /\ UNCHANGED <<pg_agent_config, attacker_opponent, defender_opponent,
                   attacker_opponent_idx, defender_opponent_idx, calls>>
    /\ UNCHANGED topoVars

\* the PolicyGradientAgentConfig objects learn is run with
PgAgentConfigs ==
    {cfg \in [attacker : BOOLEAN, defender : BOOLEAN,
              alternating_optimization : BOOLEAN,
              alternating_period : 0 .. MaxPeriod,
              train_log_frequency : 1 .. MaxLogFrequency,
              opponent_pool : BOOLEAN,
              baselines_in_pool : BOOLEAN,
              opponent_pool_config : OpponentPoolConfigs \cup {None}] :
        /\ cfg.attacker \/ cfg.defender
        \* fields that are never read are left at their defaults
        /\ ~cfg.alternating_optimization => cfg.alternating_period = 0
        /\ ~cfg.opponent_pool => cfg.opponent_pool_config = None
        /\ cfg.opponent_pool_config = None => ~cfg.baselines_in_pool}

Init ==
    /\ NoTopology
    /\ \E n \in 1 .. MaxRolloutSteps :
          args = [n_steps |-> n, total_timesteps |-> MaxTimesteps]
    /\ \E cfg \in PgAgentConfigs : Constructor(cfg)

Next ==
    \/ SetupModel
    \/ LearnStart
    \/ CollectStart
    \/ RolloutStep
    \/ CollectEnd
    \/ LearnUpdate

Spec == Init /\ [][Next]_vars

\* learn and collect_rollouts are sequential code of one thread: the statement
\* that is next is executed
SpecLive == Spec /\ WF_vars(Next)

(***************************************************************************)
(* Properties of the opponent pools (SpecPool)                             *)
(***************************************************************************)
PoolMaxsize == pg_agent_config.opponent_pool_config.pool_maxsize

QualityMode == pg_agent_config.opponent_pool_config.quality_scores

\* the policy or bot an entry of a pool refers to
EntryModel(entry) ==
    IF "model" \in DOMAIN entry THEN entry.model
    ELSE IF "list1" \in DOMAIN entry THEN entry.list1
    ELSE entry

EntryIds(pool) == {EntryModel(pool[i]).id : i \in 1 .. Len(pool)}

\* the step is a completed add_model_to_pool on the attacker's / defender's pool:
\* a direct call, or one of the two calls _setup_model makes
AddedTo(attacker) ==
    /\ PoolEnabled(pg_agent_config)
    /\ pc' = "ready"
    /\ \/ op'.name = "_setup_model"
       \/ op'.name = "add_model_to_pool" /\ op'.attacker = attacker

\* C6: after any sequence of add_model_to_pool calls from the state the
\* constructor leaves, neither pool holds more than pool_maxsize entries.
C6_PoolNeverExceedsMaxsize ==
    (PoolEnabled(pg_agent_config) /\ pc = "ready")
        => /\ Len(attacker_pool) <= PoolMaxsize
           /\ Len(defender_pool) <= PoolMaxsize

\* an add on a pool at capacity: the entry at index 0 is gone, the others keep
\* their order, and a new snapshot of the live policy is the last entry
FifoEviction(pool, pool_after, policy) ==
    (Len(pool) = PoolMaxsize)
        => /\ Len(pool_after) = Len(pool)
           /\ \A i \in 1 .. Len(pool) - 1 : pool_after[i] = pool[i + 1]
           /\ LET new == EntryModel(pool_after[Len(pool_after)])
              IN /\ new.kind = PPOPolicy
                 /\ new.params = policy.params
                 /\ new.id \notin EntryIds(pool) \cup {attacker_policy'.id, defender_policy'.id}

\* C7: eviction is FIFO: an add on a pool at capacity removes index 0, keeps
\* the order of the remaining entries and makes the new snapshot the last entry.
C7_FifoEviction ==
    [][/\ AddedTo(TRUE) => FifoEviction(attacker_pool, attacker_pool', attacker_policy')
       /\ AddedTo(FALSE) => FifoEviction(defender_pool, defender_pool', defender_policy')]_vars

\* an add has evicted the older of the two seeded baseline bots: the one that
\* was second is now first, followed by the snapshot
C7_Witness ==
    /\ pc = "ready"
    /\ PoolEnabled(pg_agent_config)
    /\ PoolMaxsize = 2
    /\ Len(defender_pool) = 2
    /\ EntryModel(defender_pool[1]).kind = "RandomDefenseBotAgent"
    /\ EntryModel(defender_pool[2]).kind = PPOPolicy

\* the step is update_quality_score(opponent_idx, attacker)
UpdatedScore(attacker) ==
    /\ op'.name = "update_quality_score"
    /\ op'.attacker = attacker

OnlyScoreDecreased(pool, pool_after, other, other_after, i) ==
    /\ Len(pool_after) = Len(pool)
    /\ \A j \in 1 .. Len(pool) : pool_after[j].model = pool[j].model
    /\ \A j \in 1 .. Len(pool) : j # i + 1 => pool_after[j].quality = pool[j].quality
    /\ pool_after[i + 1].quality < pool[i + 1].quality
    /\ other_after = other

NewEntryScore(pool_after) ==
    LET n == Len(pool_after)
        new == pool_after[n]
        others == SubSeq(get_pool_quality_scores(pool_after), 1, n - 1)
    IN /\ n >= 1
       /\ new.quality = IF n = 1
                        THEN pg_agent_config.opponent_pool_config.initial_quality
                        ELSE SeqMax(others)
       /\ \A j \in 1 .. n - 1 : new.quality >= others[j]

\* the scenario: the first two adds to an empty pool, below capacity
FirstTwoAdds(pool, pool_after) ==
    LET initial_quality == pg_agent_config.opponent_pool_config.initial_quality
    IN /\ Len(pool) = 0 => pool_after[1].quality = initial_quality
       /\ (Len(pool) = 1 /\ pool[1].quality = initial_quality /\ PoolMaxsize >= 2)
             => /\ Len(pool_after) = 2
                /\ pool_after[2].quality = initial_quality

\* C9: with quality scores, the new entry gets initial_quality when the pool
\* is empty and else the maximum score in the pool; the first two adds from an
\* empty pool both give initial_quality; the new score is >= every other score.
C9_NewEntryGetsMaxScore ==
    [][/\ (AddedTo(TRUE) /\ QualityMode) =>
             NewEntryScore(attacker_pool') /\ FirstTwoAdds(attacker_pool, attacker_pool')
       /\ (AddedTo(FALSE) /\ QualityMode) =>
             NewEntryScore(defender_pool') /\ FirstTwoAdds(defender_pool, defender_pool')]_vars

\* an add after a score update: the new entry got the maximum of the pool,
\* which is the lowered score and not initial_quality
C9_Witness ==
    /\ op.name = "add_model_to_pool"
    /\ op.attacker
    /\ pc = "ready"
    /\ QualityMode
    /\ Len(attacker_pool) = 2
    /\ attacker_pool[2].quality = attacker_pool[1].quality
    /\ attacker_pool[2].quality < pg_agent_config.opponent_pool_config.initial_quality

(***************************************************************************)
(* Properties of rollout collection (Spec)                                 *)
(***************************************************************************)
\* the side is enabled in the configuration and is the one being trained
Trainable(attacker) ==
    IF attacker
    THEN pg_agent_config.attacker /\ train_attacker
    ELSE pg_agent_config.defender /\ train_defender

BufferOf(attacker) ==
    IF attacker THEN attacker_rollout_buffer ELSE defender_rollout_buffer

\* a collection phase is running, has just returned True, or has just failed
InCollectionPhase == op.name = "collect_rollouts"

\* C10: in a collection phase where one side is not trainable and no opponent
\* pool is configured, that side's buffer receives no transition during the
\* whole phase, the phase does not fail, and when collect_rollouts returns the
\* trainable side's buffer holds exactly n_rollout_steps transitions.
C10_NonTrainableSideCollectsNothing ==
    \A attacker \in BOOLEAN :
        (/\ InCollectionPhase
         /\ ~pg_agent_config.opponent_pool
         /\ ~Trainable(attacker)
         /\ Trainable(~attacker))
            => /\ BufferOf(attacker).pos = 0
               /\ exc \notin {"AttributeError", "UnboundLocalError"}
               /\ pc = "update" => BufferOf(~attacker).pos = args.n_steps

\* callback.on_step() has returned False in this learn() call
CallbackReturnedFalse == exc = "TypeError"

\* C20: once callback.on_step() has returned False after a step of
\* collect_rollouts, the learn() call takes no further pass through the
\* collection loop (no environment step, no counted step), appends no
\* transition to a rollout buffer, changes no opponent pool, quality score or
\* sampled opponent, and trains no policy.
C20_NothingAfterCallbackAbort ==
    [][CallbackReturnedFalse =>
          /\ pc' = pc
          /\ UNCHANGED <<n_steps, num_timesteps, iteration>>
          /\ UNCHANGED <<attacker_rollout_buffer, defender_rollout_buffer>>
          /\ UNCHANGED <<attacker_pool, defender_pool, attacker_opponent,
                         defender_opponent, attacker_opponent_idx,
                         defender_opponent_idx, attacker_pool_iteration,
                         defender_pool_iteration>>
          /\ UNCHANGED <<attacker_policy, defender_policy, train_attacker,
                         train_defender>>]_vars

\* the callback stops the second step of a rollout of two: one transition is in
\* a buffer and the rollout is not complete
C20_Witness ==
    /\ CallbackReturnedFalse
    /\ pc = "raised"
    /\ n_steps = 1
    /\ args.n_steps = 2
    /\ num_timesteps < args.total_timesteps
    /\ \/ attacker_rollout_buffer # None /\ attacker_rollout_buffer.pos = 1
       \/ defender_rollout_buffer # None /\ defender_rollout_buffer.pos = 1

(***************************************************************************)
(* Properties of the alternation of the trained side (Spec)                *)
(***************************************************************************)
\* a collect-then-update iteration of learn that ran to its end
UpdateIteration == pc = "update" /\ pc' \in {"collect", "done"}

\* the step changes which side is trainable
Flips == <<train_attacker', train_defender'>> # <<train_attacker, train_defender>>

\* C21: in alternating-optimization mode the trained side flips every
\* alternating_period update iterations of learn: counting the
\* collect-then-update iterations since the last flip (or since the start),
\* an iteration flips exactly when that count reaches alternating_period.
C21_FlipWhenCountReachesPeriod ==
    [][(/\ UpdateIteration
        /\ pg_agent_config.alternating_optimization
        /\ pg_agent_config.alternating_period >= 1)
          => (Flips <=> updates_since_flip + 1 = pg_agent_config.alternating_period)]_vars

\* C22: in alternating-optimization mode exactly one side is trainable at
\* every point, from construction onward and across every flip, with or
\* without an opponent pool: train_attacker and train_defender are never both
\* true and never both false.
C22_ExactlyOneSideTrainable ==
    pg_agent_config.alternating_optimization => (train_attacker # train_defender)

\* the number of transitions in a rollout buffer (none when the side has no buffer)
Stored(buffer) == IF "pos" \in DOMAIN buffer THEN buffer.pos ELSE 0

\* C23: in alternating-optimization mode, with or without an opponent pool,
\* only the buffer of the side that is trainable receives transitions during a
\* collection phase: a step that appends to a side's rollout buffer is a step
\* taken while that side is trainable.
C23_OnlyTrainableSideCollects ==
    [][pg_agent_config.alternating_optimization =>
          /\ Stored(attacker_rollout_buffer') > Stored(attacker_rollout_buffer)
                => train_attacker
          /\ Stored(defender_rollout_buffer') > Stored(defender_rollout_buffer)
                => train_defender]_vars

\* a complete rollout of two steps with both sides enabled, in which the
\* trainable attacker collected two transitions and the defender none
C23_Witness ==
    /\ pg_agent_config.alternating_optimization
    /\ pg_agent_config.attacker
    /\ pg_agent_config.defender
    /\ train_attacker
    /\ ~train_defender
    /\ pc = "update"
    /\ args.n_steps = 2
    /\ Stored(attacker_rollout_buffer) = 2
    /\ Stored(defender_rollout_buffer) = 0

(***************************************************************************)
(* Properties of train and of the pool entries (Spec)                      *)
(***************************************************************************)
\* the policies and bots the entries of a pool refer to
PoolModels(pool) == {EntryModel(pool[i]) : i \in 1 .. Len(pool)}

\* the objects that are in the pool before and after the step are unchanged
PoolEntriesKept(pool_before, pool_after) ==
    \A m \in PoolModels(pool_before), n \in PoolModels(pool_after) :
        m.id = n.id => m = n

\* C24: in every iteration of learn, train() runs only for a side that is
\* enabled and trainable, and it changes only that side's policy: the live
\* policy of a side that is not trained is unchanged, it stays the same object,
\* and no entry of an opponent pool is changed.
C24_TrainChangesOnlyTrainedSide ==
    [][pc = "update" =>
          /\ attacker_policy' # attacker_policy
                => /\ pg_agent_config.attacker /\ train_attacker
                   /\ attacker_policy'.id = attacker_policy.id
          /\ defender_policy' # defender_policy
                => /\ pg_agent_config.defender /\ train_defender
                   /\ defender_policy'.id = defender_policy.id
          /\ PoolEntriesKept(attacker_pool, attacker_pool')
          /\ PoolEntriesKept(defender_pool, defender_pool')]_vars

\* an iteration of learn that trained the attacker and not the enabled
\* defender, with an opponent pool that holds snapshots
C24_Witness ==
    /\ op.name = "learn"
    /\ "trained_attacker" \in DOMAIN op
    /\ op.trained_attacker
    /\ ~op.trained_defender
    /\ pg_agent_config.defender
    /\ attacker_policy.params = 1
    /\ defender_policy.params = 0
    /\ Len(defender_pool) >= 1
    /\ Len(attacker_pool) >= 1

\* the live policy of a side, and its pool
LivePolicy(attacker) == IF attacker THEN attacker_policy ELSE defender_policy

PoolOf(attacker) == IF attacker THEN attacker_pool ELSE defender_pool

\* C25: pool entries are independent snapshots.  The entry add_model_to_pool
\* inserts is a copy of the live policy as it is at insertion time (same
\* parameters, another object); no entry of a pool is ever the same object as
\* a live policy; and no later call, a training update of the live policy
\* included, changes an entry that stays in the pool.
C25_PoolEntriesAreSnapshots ==
    [][\A attacker \in BOOLEAN :
          /\ AddedTo(attacker)
                => LET pool == PoolOf(attacker)'
                       entry == EntryModel(pool[Len(pool)])
                       live == LivePolicy(attacker)'
                   IN /\ entry.kind = PPOPolicy
                      /\ entry.params = live.params
                      /\ entry.id # live.id
          /\ PoolEntriesKept(PoolOf(attacker), PoolOf(attacker)')
          /\ pc' = "ready"
                => \A m \in PoolModels(PoolOf(attacker)') :
                      m.id \notin {attacker_policy'.id, defender_policy'.id}]_vars

\* a snapshot of the attacker taken after one training update, still in the
\* pool with the parameters it was taken with after the live policy was
\* trained again
C25_Witness ==
    /\ pc = "ready"
    /\ op.name = "train"
    /\ attacker_policy.params = 2
    /\ Len(attacker_pool) >= 1
    /\ LET entry == EntryModel(attacker_pool[Len(attacker_pool)])
       IN /\ entry.kind = PPOPolicy
          /\ entry.params = 1
          /\ entry.id # attacker_policy.id

\* C29: constructing a NetworkConfig raises for every non-negative
\* (num_rows, num_cols) whose layout has no START cell or no DATA cell: every
\* NetworkConfig that is returned has both a START and a DATA cell.
C29_ConstructedHasStartAndData ==
    Constructed => (CellsOfType(START) # {} /\ CellsOfType(DATA) # {})

\* C30: with an opponent pool enabled and pool_maxsize >= 1, every call of
\* sample_opponent, in _setup_model and at the episode ends of the collection
\* phases, draws from a pool with at least one entry and returns an index in
\* [0, len(pool)).
C30_SampleOpponentOnNonEmptyPool ==
    (/\ PoolEnabled(pg_agent_config)
     /\ pg_agent_config.opponent_pool_config.pool_maxsize >= 1
     /\ "samples" \in DOMAIN op)
        => \A i \in 1 .. Len(op.samples) :
              LET s == op.samples[i]
              IN /\ s.len >= 1
                 /\ IsRet(s.ret)
                 /\ s.ret.val \in 0 .. s.len - 1

\* an episode end of a collection phase at which the defender pool, holding two
\* entries, was sampled and gave its second entry
C30_Witness ==
    /\ PoolEnabled(pg_agent_config)
    /\ pg_agent_config.opponent_pool_config.pool_maxsize >= 1
    /\ op.name = "collect_rollouts"
    /\ "samples" \in DOMAIN op
    /\ Len(op.samples) = 1
    /\ ~op.samples[1].attacker
    /\ op.samples[1].len = 2
    /\ op.samples[1].ret = Ret(1)
    /\ defender_opponent_idx = 1

(***************************************************************************)
(* Properties of the checkpoints (SpecCheckpoint)                          *)
(***************************************************************************)
\* C26: load with an environment whose attacker or defender observation or
\* action space differs from the space recorded in the checkpoint fails at
\* load time; no model is returned for such an environment.
C26_LoadRejectsOtherSpaces ==
    (/\ op.name = "load"
     /\ \E n \in SpaceNames : op.env[n] # op.checkpoint.data[n])
        => IsRaise(op.ret)

\* C27: each checkpoint save_model writes holds the parameters and the
\* optimizer state of the side it is written for: the state dicts of the
\* attacker file are those of the attacker policy, the state dicts of the
\* defender file those of the defender policy.
C27_CheckpointHoldsItsSide ==
    op.name = "save_model"
        => \A side \in DOMAIN op.files :
              LET live == IF side = "attacker" THEN attacker_policy ELSE defender_policy
                  names == IF side = "attacker"
                           THEN {"attacker_policy", "attacker_policy.optimizer"}
                           ELSE {"defender_policy", "defender_policy.optimizer"}
              IN op.files[side].params = [name \in names |-> live.params]

\* what a pool holds: the kind of each entry's model, its parameters and its
\* quality score, in order
PoolContents(pool) ==
    [i \in 1 .. Len(pool) |->
        LET m == EntryModel(pool[i])
        IN [kind |-> m.kind,
            params |-> IF m.kind = PPOPolicy THEN m.params ELSE 0,
            wrapped |-> "list1" \in DOMAIN pool[i],
            quality |-> IF "quality" \in DOMAIN pool[i] THEN pool[i].quality ELSE 0]]

\* C28: with an opponent pool, the checkpoint save_model writes contains the
\* opponent pools intact (same entries, order and quality scores), and loading
\* it with the training environment gives back a model with those pools.
C28_CheckpointRestoresPools ==
    /\ op.name = "save_model"
          => \A side \in DOMAIN op.files :
                /\ {"attacker_pool", "defender_pool"} \subseteq DOMAIN op.files[side].data
                /\ op.files[side].data["attacker_pool"] = attacker_pool
                /\ op.files[side].data["defender_pool"] = defender_pool
    /\ (op.name = "load" /\ op.env = TrainingEnv /\ IsRet(op.ret))
          => /\ PoolContents(op.ret.val["attacker_pool"]) = PoolContents(attacker_pool)
             /\ PoolContents(op.ret.val["defender_pool"]) = PoolContents(defender_pool)

(***************************************************************************)
(* Properties of the collection phase and of learn (Spec), continued       *)
(***************************************************************************)
\* a pass through the loop of collect_rollouts is taken
RolloutPass == pc = "step" /\ n_steps < args.n_steps /\ "attacker_via" \in DOMAIN op'

\* C32: in alternating optimization with an opponent pool, while the defender
\* is the trainable side the attacker's action comes from the sampled attacker
\* opponent, through forward() when that opponent is a policy snapshot and
\* through action() when it is a scripted bot: the interface is decided by the
\* attacker opponent's own kind; symmetrically for the defender opponent while
\* the attacker is the trainable side.
C32_InterfaceFollowsOpponentKind ==
    [][(/\ RolloutPass
        /\ AlternatingWithPool(pg_agent_config)
        /\ PoolEnabled(pg_agent_config))
          => /\ (pg_agent_config.defender /\ train_defender)
                   => op'.attacker_via = OpponentInterface(attacker_opponent)
             /\ (pg_agent_config.attacker /\ train_attacker)
                   => op'.defender_via = OpponentInterface(defender_opponent)]_vars
\* a pass through the loop ends an episode (dones), with or without a hack
EpisodeEnds == RolloutPass /\ num_train_games_total' = num_train_games_total + 1

EndsWithHack == num_train_hacks_total' = num_train_hacks_total + 1

\* lines 380-385: quality scores are on, so update_quality_score is applied to
\* the defender pool (resp. attacker pool) at this episode end
UpdatesDefenderScore ==
    /\ EpisodeEnds
    /\ PoolEnabled(pg_agent_config)
    /\ pg_agent_config.opponent_pool_config.quality_scores
    /\ train_attacker
    /\ EndsWithHack

UpdatesAttackerScore ==
    /\ EpisodeEnds
    /\ PoolEnabled(pg_agent_config)
    /\ pg_agent_config.opponent_pool_config.quality_scores
    /\ train_defender
    /\ ~EndsWithHack

\* the pool entry at the stored index holds the opponent that is playing
DesignatesOpponent(pool, opponent_idx, opponent) ==
    /\ opponent_idx >= 0
    /\ opponent_idx < Len(pool)
    /\ EntryModel(pool[opponent_idx + 1]) = opponent

\* C37: whenever update_quality_score is applied at an episode end, the pool
\* entry at defender_opponent_idx (resp. attacker_opponent_idx) is the entry of
\* the policy or bot playing as defender_opponent (resp. attacker_opponent),
\* also after add_model_to_pool has evicted entries since the opponent was
\* sampled.
C37_IndexDesignatesOpponent ==
    [][/\ UpdatesDefenderScore
          => DesignatesOpponent(defender_pool, defender_opponent_idx, defender_opponent)
       /\ UpdatesAttackerScore
          => DesignatesOpponent(attacker_pool, attacker_opponent_idx, attacker_opponent)]_vars
\* the quality score of the pool entry that holds the opponent went down
OpponentScoreDecremented(pool_before, pool_after, opponent) ==
    \E i \in 1 .. Len(pool_before) :
        /\ EntryModel(pool_before[i]) = opponent
        /\ pool_after[i].quality < pool_before[i].quality

\* C33: with quality scores, at an episode end the current defender opponent's
\* score is decremented if and only if the attacker is the trainable side and
\* the episode ended with a hack, and the current attacker opponent's score if
\* and only if the defender is the trainable side and the episode ended
\* without a hack; a pass that does not end an episode changes no score.
C33_ScoreDecrementedIffTrainableSideWon ==
    [][(/\ RolloutPass
        /\ PoolEnabled(pg_agent_config)
        /\ pg_agent_config.opponent_pool_config.quality_scores)
          => /\ OpponentScoreDecremented(defender_pool, defender_pool', defender_opponent)
                   <=> (EpisodeEnds /\ train_attacker /\ EndsWithHack)
             /\ OpponentScoreDecremented(attacker_pool, attacker_pool', attacker_opponent)
                   <=> (EpisodeEnds /\ train_defender /\ ~EndsWithHack)
             /\ ~EpisodeEnds => UNCHANGED <<attacker_pool, defender_pool>>]_vars
\* the window counters are below the cumulative ones, the hacks below the games
CountersOrdered ==
    /\ 0 <= num_train_hacks
    /\ num_train_hacks <= num_train_games
    /\ 0 <= num_train_hacks_total
    /\ num_train_hacks_total <= num_train_games_total
    /\ num_train_games <= num_train_games_total

\* learn is at a logging interval: the iteration that ends is a multiple of
\* train_log_frequency
LoggingInterval ==
    /\ pc = "update"
    /\ (iteration + 1) % pg_agent_config.train_log_frequency = 0

\* C34: in every reachable state 0 <= num_train_hacks <= num_train_games,
\* 0 <= num_train_hacks_total <= num_train_games_total and num_train_games <=
\* num_train_games_total; a window counter goes down only at a logging
\* interval, where it is reset to 0, and the cumulative counters never
\* decrease.
C34_EpisodeCounters ==
    /\ CountersOrdered
    /\ [][/\ CountersOrdered'
          /\ num_train_games' < num_train_games
                => (LoggingInterval /\ num_train_games' = 0)
          /\ num_train_hacks' < num_train_hacks
                => (LoggingInterval /\ num_train_hacks' = 0)
          /\ num_train_games_total' >= num_train_games_total
          /\ num_train_hacks_total' >= num_train_hacks_total]_vars

\* after a reset of the window: one hacked episode in the window, two episodes
\* in all
C34_Witness ==
    /\ num_train_games = 1
    /\ num_train_hacks = 1
    /\ num_train_games_total = 2
    /\ num_train_hacks_total = 1
    /\ iteration >= 1
\* C36: when callback.on_step() returns False, learn() ends normally:
\* collect_rollouts reports continue_training = False, learn leaves its loop
\* and returns the model (after callback.on_training_end()), and no error is
\* raised.
C36_CallbackAbortEndsLearnNormally ==
    ("on_step" \in DOMAIN op /\ ~op.on_step) => (pc = "done" /\ exc = "none")
\* the value estimate (and log-probability, assigned by the same statement)
\* of a side was produced in the running collection phase
ValuesProduced(attacker) ==
    IF attacker THEN attacker_values = "bound" ELSE defender_values = "bound"

\* C38: whenever collect_rollouts appends a transition to a side's buffer or
\* computes the returns and advantages of a side's buffer, a value estimate
\* and log-probability of that side were produced during the same collection
\* phase, for every combination of enabled sides, trainable side, alternating
\* optimization, opponent pool and opponent kind: no phase reaches such a
\* statement with the side's values unassigned (UnboundLocalError).
C38_ValuesProducedBeforeUse ==
    InCollectionPhase
        => /\ exc # "UnboundLocalError"
           /\ \A attacker \in BOOLEAN :
                 (BufferOf(attacker).pos > 0 \/ BufferOf(attacker).returns)
                    => ValuesProduced(attacker)
\* learn() has returned or has raised
LearnEnded == pc \in {"done", "raised"}

\* the shape of the iterations of learn: an update follows a full collection
\* of n_steps environment steps, num_timesteps grows by n_steps per iteration,
\* and learn returns at the first iteration after which num_timesteps has
\* reached total_timesteps
IterationShape ==
    /\ pc = "update" => /\ n_steps = args.n_steps
                        /\ num_timesteps = (iteration + 1) * args.n_steps
    /\ pc = "step" => /\ n_steps <= args.n_steps
                      /\ num_timesteps = iteration * args.n_steps + n_steps
    /\ pc = "collect" => /\ num_timesteps = iteration * args.n_steps
                         /\ num_timesteps < args.total_timesteps
    /\ pc = "done" => /\ num_timesteps = iteration * args.n_steps
                      /\ num_timesteps >= args.total_timesteps
                      /\ num_timesteps - args.n_steps < args.total_timesteps

\* C35: learn(total_timesteps) terminates when n_steps >= 1: each iteration is
\* one full collection of n_steps environment steps followed by the updates,
\* num_timesteps grows by n_steps per iteration (one environment), no update
\* runs before its collection has completed, and the loop is left at the
\* first iteration after which num_timesteps >= total_timesteps.
C35_LearnTerminates == []IterationShape /\ <>LearnEnded

\* learn has returned after two iterations of two steps, one step beyond
\* total_timesteps = 3
C35_Witness ==
    /\ pc = "done"
    /\ exc = "none"
    /\ args.n_steps = 2
    /\ iteration = 2
    /\ num_timesteps = 4
    /\ args.total_timesteps = 3

\* the last element of a non-empty list
Last(list) == list[Len(list)]

\* C39: for every episode that ends during a collection phase, the attacker
\* reward, the defender reward and the step count collect_rollouts records for
\* it are the sums over all steps of that episode, the steps taken in an
\* earlier collection phase included
C39_EpisodeMetricsAreSums ==
    [][EpisodeEnds =>
          LET episode == Last(completed')
          IN /\ Last(rollout_metrics'.episode_attacker_rewards) = episode.attacker_reward
             /\ Last(rollout_metrics'.episode_defender_rewards) = episode.defender_reward
             /\ Last(rollout_metrics'.episode_steps) = episode.step]_vars

\* the step counts of the episodes of a window
StepCounts(episodes) == [i \in 1 .. Len(episodes) |-> episodes[i].step]

\* learn reaches its logging block and calls log_metrics
LogsMetrics == pc = "update" /\ op'.name = "learn" /\ op'.log_metrics # None

\* C31: the episode-length list learn passes to log_metrics at a logging
\* interval holds exactly the step counts of the episodes that completed
\* during the window
C31_LoggedStepsAreStepCounts ==
    [][LogsMetrics => op'.log_metrics.episode_steps = StepCounts(completed)]_vars
====
